---- MODULE Spec2Model ----
(***************************************************************************)
(* A model of the modbus client/server stack (simonvetter/modbus).         *)
(*                                                                         *)
(* The module holds several specifications over one set of variables; each *)
(* specification drives one part of the program and leaves the variables   *)
(* of the other parts at their initial values:                             *)
(*                                                                         *)
(*   SpecServer, SpecServerFair   ModbusServer: Start, Stop, the accept    *)
(*                                loop and the per-connection sessions     *)
(***************************************************************************)
EXTENDS Integers, Sequences, FiniteSets, TLC

(***************************************************************************)
(* Bounds of the model.                                                    *)
(***************************************************************************)
\* ms.conf.MaxClients: the configured connection limit
MaxClients == 1
\* the number of connections the listeners hand out over a run
MaxConns == 2
\* the number of acceptTCPClients goroutines alive at once (Start and Stop
\* themselves may be called any number of times)
MaxLoops == 2

Conns == 1..MaxConns

\* the goroutines calling one client
NumCallers == 2
Callers == 1..NumCallers

\* the requests one MBAP transport executes, and the frames its peer sends
MaxRequests == 2
MaxFrames == 2

\* the extensions of a client certificate
MaxExtensions == 2

Range(s) == {s[i] : i \in 1..Len(s)}

(***************************************************************************)
(* ModbusServer state.                                                     *)
(***************************************************************************)
VARIABLES
    started,        \* ms.started
    tcpListener,    \* ms.tcpListener: "nil", or the state of the listener it
                    \* holds: "open" or "closed"
    tcpClients,     \* ms.tcpClients: the slice of active client connections
    sockClosed,     \* the connections on which Close() was called (server side)
    accLoop,        \* the acceptTCPClients goroutines, by position:
                    \*   top      about to call ms.tcpListener.Accept()
                    \*   open     blocked in Accept() on an open listener
                    \*   closed   blocked in Accept() on a closed listener
                    \*   check    the connections waiting for ms.lock
                    \*   reject   the connections about to be discarded
    sess,           \* one handleTCPClient goroutine per accepted connection: its pc
    nconn,          \* the number of connections Accept() has returned so far
    tlsMode,        \* ms.transportType = modbusTCPOverTLS
    sawFull,        \* history: connections whose admission check found the pool full
    peerCert        \* history: per connection, what its client presented in
                    \* the TLS handshake: "unknown" before the handshake
                    \* and once the connection has left the pool,
                    \* "none" (no certificate), "untrusted" (a certificate
                    \* that does not verify against ms.conf.TLSClientCAs),
                    \* "verified"

serverVars == <<started, tcpListener, tcpClients, sockClosed,
                accLoop, sess, nconn, tlsMode, sawFull, peerCert>>

(***************************************************************************)
(* handleTransport state: one session's request loop.                      *)
(***************************************************************************)
VARIABLES
    hpc,            \* where handleTransport is: "read", "dispatch" (the switch
                    \* on the function code), "respond", "reset" (the
                    \* bottom of the loop), "returned"
    req,            \* the request PDU
    res,            \* the response PDU
    err,            \* the err variable
    call,           \* history: the handler call made for the current request
                    \* and what the handler returned
    tClosed,        \* t.Close() was called
    wrote           \* the outcome of WriteResponse for the current request

dispatchVars == <<hpc, req, res, err, call, tClosed, wrote>>

(***************************************************************************)
(* tcpTransport state: one client-side MBAP transport, its socket and the  *)
(* peer at the other end.                                                  *)
(***************************************************************************)
VARIABLES
    lastTxnId,      \* tt.lastTxnId
    tpc,            \* where ExecuteRequest is: "idle" (not running), "header"
                    \* and "body" (blocked in the two io.ReadFull calls of
                    \* readMBAPFrame)
    hdr,            \* readMBAPFrame's locals once the header is decoded
    rx,             \* the byte stream of the socket: what the peer has sent and
                    \* the transport has not read yet, arrived or on its way
    sent,           \* the request frames written to the socket, in order
    ret,            \* what the last ExecuteRequest returned
    nframes,        \* the number of frames the peer has sent
    answered,       \* history: <<k, pdu>> when the peer replied pdu to request k
    ncalls,         \* history: the number of ExecuteRequest calls so far
    cur             \* history: the index in sent of the request of the current
                    \* (or last) ExecuteRequest, 0 when it wrote none

mbapVars == <<lastTxnId, tpc, hdr, rx, sent, ret, nframes, answered,
              ncalls, cur>>

(***************************************************************************)
(* ModbusClient state: the callers of one client, its mutex and its         *)
(* encoding settings.                                                      *)
(***************************************************************************)
VARIABLES
    lock,           \* mc.lock: its holder, 0 when free
    cpc,            \* per caller: "idle", "wait" (blocked in mc.lock.Lock()),
                    \* "locked" (holds the lock, before the exchange),
                    \* "exchange" (request written, reading the response);
                    \* "encode" and "decode" (in a public method, outside
                    \* the private one that takes the lock), "set" (in
                    \* SetEncoding, between its two assignments)
    cmeth,          \* per caller: the method it is running
    encoding,       \* mc.endianness and mc.wordOrder
    entered,        \* per caller: mc.endianness and mc.wordOrder when its
                    \* call started
    access          \* the last read of mc.endianness and mc.wordOrder by a
                    \* request method: who read, who held mc.lock, and
                    \* whether the settings read were no longer those in
                    \* force when the call started

clientVars == <<lock, cpc, cmeth, encoding, entered, access>>

(***************************************************************************)
(* One call of a request method of the client, from its parameters to the  *)
(* error it returns.                                                       *)
(***************************************************************************)
VARIABLES
    mpc,            \* where the method is: "idle" (not called), "exchange"
                    \* (in mc.executeRequest), "returned"
    margs,          \* the method called, its parameters and the client
                    \* configuration it reads
    mreq,           \* the request handed to mc.executeRequest, if any
    mres,           \* the response the transport returned, if any
    merr            \* the error the method returned

callVars == <<mpc, margs, mreq, mres, merr>>

(***************************************************************************)
(* History of the server side of one MBAP transport (ReadRequest and       *)
(* WriteResponse on the tcpTransport variables above).                     *)
(***************************************************************************)
VARIABLES
    called,         \* the byte stream and tt.lastTxnId when the last
                    \* ReadRequest was called
    goodTxn,        \* the transaction id of the most recent frame ReadRequest
                    \* returned as a request, -1 when there is none
    wroteTxn        \* per frame of sent: goodTxn and the error of the last
                    \* ReadRequest when it was written

histVars == <<called, goodTxn, wroteTxn>>

(***************************************************************************)
(* The functions that keep no state (encoding, frame assembly and parsing, *)
(* extractRole): the arguments of one application and what it returns.     *)
(* The parts that stand alone (udpSockWrapper, rtuTransport.ExecuteRequest, *)
(* the reads of 32-bit and 64-bit values) keep their state here as well.   *)
(***************************************************************************)
VARIABLES
    ppc,            \* "idle", "start" (the arguments are drawn), "encoded",
                    \* "sent", "damaged", "written" (the first function was
                    \* applied), "done"; in rtuTransport.ExecuteRequest
                    \* "ready" (no call runs), "wait", "write", "sent",
                    \* "read", "resync", "discard", "mark"
    pin,            \* the arguments; the datagrams of the peer of a
                    \* udpSockWrapper; the link of an rtuTransport (the bytes
                    \* it holds, when they were received, and the bytes the
                    \* device has still to send)
    pmid,           \* what the first function returned, when a second one is
                    \* applied to it; the fields of the udpSockWrapper; the
                    \* time since rt.lastActivity and the request
    pout            \* the result; the bytes the reads of a udpSockWrapper
                    \* returned; what ExecuteRequest returned and did

pureVars == <<ppc, pin, pmid, pout>>

(***************************************************************************)
(* The deadline of a socket.                                               *)
(***************************************************************************)
VARIABLES
    timeLeft        \* the time until the deadline set by SetDeadline, 0 once
                    \* it has passed

timeVars == <<timeLeft>>

vars == <<serverVars, dispatchVars, mbapVars, clientVars, callVars, histVars,
          pureVars, timeVars>>

\* the variables each part of the model leaves alone
notServer ==
    <<dispatchVars, mbapVars, clientVars, callVars, histVars, pureVars,
      timeVars>>
notDispatch ==
    <<serverVars, mbapVars, clientVars, callVars, histVars, pureVars,
      timeVars>>
notMbap ==
    <<serverVars, dispatchVars, clientVars, callVars, histVars, pureVars,
      timeVars>>
notClient ==
    <<serverVars, dispatchVars, mbapVars, callVars, histVars, pureVars,
      timeVars>>
notCall ==
    <<serverVars, dispatchVars, mbapVars, clientVars, histVars, pureVars,
      timeVars>>
notHist ==
    <<serverVars, dispatchVars, clientVars, callVars, pureVars,
      timeVars>>
notPure ==
    <<serverVars, dispatchVars, mbapVars, clientVars, callVars, histVars,
      timeVars>>

(***************************************************************************)
(* Function codes and exception codes (modbus.go).                         *)
(***************************************************************************)
fcReadCoils == 1
fcReadDiscreteInputs == 2
fcReadHoldingRegisters == 3
fcReadInputRegisters == 4
fcWriteSingleCoil == 5
fcWriteSingleRegister == 6
fcWriteMultipleCoils == 15
fcWriteMultipleRegisters == 16
fcMaskWriteRegister == 22

exIllegalFunction == 1
exIllegalDataAddress == 2
exIllegalDataValue == 3
exServerDeviceFailure == 4
exAcknowledge == 5
exServerDeviceBusy == 6
exMemoryParityError == 8
exGWPathUnavailable == 10
exGWTargetFailedToRespond == 11

\* the errors a response can carry as an exception code
ModbusErrors ==
    {"ErrIllegalFunction", "ErrIllegalDataAddress", "ErrIllegalDataValue",
     "ErrServerDeviceFailure", "ErrAcknowledge", "ErrMemoryParityError",
     "ErrServerDeviceBusy", "ErrGWPathUnavailable", "ErrGWTargetFailedToRespond"}

mapErrorToExceptionCode(e) ==
    CASE e = "ErrIllegalFunction" -> exIllegalFunction
      [] e = "ErrIllegalDataAddress" -> exIllegalDataAddress
      [] e = "ErrIllegalDataValue" -> exIllegalDataValue
      [] e = "ErrServerDeviceFailure" -> exServerDeviceFailure
      [] e = "ErrAcknowledge" -> exAcknowledge
      [] e = "ErrMemoryParityError" -> exMemoryParityError
      [] e = "ErrServerDeviceBusy" -> exServerDeviceBusy
      [] e = "ErrGWPathUnavailable" -> exGWPathUnavailable
      [] e = "ErrGWTargetFailedToRespond" -> exGWTargetFailedToRespond
      [] OTHER -> exServerDeviceFailure

\* the error a client gets for an exception code; the codes are listed in the
\* order of the source
mapExceptionCodeToErrorSwapped(code) ==
    CASE code = exIllegalFunction -> "ErrIllegalFunction"
      [] code = exIllegalDataAddress -> "ErrIllegalDataAddress"
      [] code = exIllegalDataValue -> "ErrIllegalDataValue"
      [] code = exServerDeviceFailure -> "ErrServerDeviceFailure"
      [] code = exAcknowledge -> "ErrAcknowledge"
      [] code = exMemoryParityError -> "ErrServerDeviceBusy"
      [] code = exServerDeviceBusy -> "ErrMemoryParityError"
      [] code = exGWPathUnavailable -> "ErrGWPathUnavailable"
      [] code = exGWTargetFailedToRespond -> "ErrGWTargetFailedToRespond"
      [] OTHER -> "unknown exception code"
mapExceptionCodeToError(code) ==
    CASE code = exIllegalFunction -> "ErrIllegalFunction"
      [] code = exIllegalDataAddress -> "ErrIllegalDataAddress"
      [] code = exIllegalDataValue -> "ErrIllegalDataValue"
      [] code = exServerDeviceFailure -> "ErrServerDeviceFailure"
      [] code = exAcknowledge -> "ErrAcknowledge"
      [] code = exMemoryParityError -> "ErrMemoryParityError"
      [] code = exServerDeviceBusy -> "ErrServerDeviceBusy"
      [] code = exGWPathUnavailable -> "ErrGWPathUnavailable"
      [] code = exGWTargetFailedToRespond -> "ErrGWTargetFailedToRespond"
      [] OTHER -> "unknown exception code"

CheckUnitIdNever(rq, rs) == "nil"
\* executeRequest: the unit id of a response must be that of the request; an
\* exception may also come from a gateway (unit id 0xff)
CheckUnitId(rq, rs) ==
    IF rs.functionCode < 128 /\ rs.unitId # rq.unitId THEN "ErrBadUnitId"
    ELSE IF rs.functionCode >= 128 /\ rs.unitId # rq.unitId /\ rs.unitId # 255
        THEN "ErrBadUnitId"
    ELSE "nil"

\* case res.functionCode == (req.functionCode | 0x80), the same in every
\* request method
ExceptionError(rs) ==
    IF Len(rs.payload) # 1 THEN "ErrProtocolError"
    ELSE mapExceptionCodeToError(rs.payload[1])

(***************************************************************************)
(* Encoding helpers (encoding.go).                                         *)
(***************************************************************************)
Pow2(n) == IF n = 0 THEN 1 ELSE IF n = 1 THEN 2 ELSE IF n = 2 THEN 4
           ELSE IF n = 3 THEN 8 ELSE IF n = 4 THEN 16 ELSE IF n = 5 THEN 32
           ELSE IF n = 6 THEN 64 ELSE 128

\* 0x80 | b for a byte b
OrHighBit(b) == IF b >= 128 THEN b ELSE b + 128

uint16ToBytes(endianness, in) ==
    IF endianness = "BIG_ENDIAN"
       THEN <<in \div 256, in % 256>>
       ELSE <<in % 256, in \div 256>>

bytesToUint16(endianness, in) ==
    IF endianness = "BIG_ENDIAN"
       THEN in[1] * 256 + in[2]
       ELSE in[2] * 256 + in[1]

uint16sToBytes(endianness, in) ==
    [k \in 1..(2 * Len(in)) |->
        uint16ToBytes(endianness, in[(k + 1) \div 2])[2 - (k % 2)]]

\* the loop reads in[i:i+2] for i = 0, 2, ...: the length is even wherever
\* the server calls it
bytesToUint16s(endianness, in) ==
    [k \in 1..(Len(in) \div 2) |->
        bytesToUint16(endianness, <<in[2 * k - 1], in[2 * k]>>)]

\* the number of bytes holding n bits
ByteCount(n) == (n \div 8) + (IF n % 8 # 0 THEN 1 ELSE 0)

\* the value of byte k (from 1) of the packed form of in
PackedByte(in, k) ==
    LET bit(j) == IF 8 * (k - 1) + j + 1 <= Len(in) /\ in[8 * (k - 1) + j + 1]
                     THEN Pow2(j) ELSE 0
    IN  bit(0) + bit(1) + bit(2) + bit(3) + bit(4) + bit(5) + bit(6) + bit(7)

encodeBools(in) == [k \in 1..ByteCount(Len(in)) |-> PackedByte(in, k)]

decodeBoolsMsbFirst(quantity, in) ==
    [i \in 1..quantity |->
        ((in[((i - 1) \div 8) + 1] \div Pow2(7 - ((i - 1) % 8))) % 2) = 1]
\* decodeBools(quantity, in): bit i of the packed bytes, least significant
\* bit first
decodeBools(quantity, in) ==
    [i \in 1..quantity |->
        ((in[((i - 1) \div 8) + 1] \div Pow2((i - 1) % 8)) % 2) = 1]

\* 32-bit and 64-bit values are held as their 16-bit words, most significant
\* word first (<<hi, lo>> is hi * 2^16 + lo): the integers of TLC
\* are narrower than 32 bits.

\* binary.BigEndian.PutUint32, binary.LittleEndian.PutUint32 and their inverses
PutUint32BE(v) ==
    <<v[1] \div 256, v[1] % 256, v[2] \div 256, v[2] % 256>>
PutUint32LE(v) ==
    <<v[2] % 256, v[2] \div 256, v[1] % 256, v[1] \div 256>>
Uint32BE(b) == <<b[1] * 256 + b[2], b[3] * 256 + b[4]>>
Uint32LE(b) == <<b[4] * 256 + b[3], b[2] * 256 + b[1]>>

\* binary.BigEndian.PutUint64, binary.LittleEndian.PutUint64 and their inverses
PutUint64BE(v) ==
    <<v[1] \div 256, v[1] % 256, v[2] \div 256, v[2] % 256,
      v[3] \div 256, v[3] % 256, v[4] \div 256, v[4] % 256>>
PutUint64LE(v) ==
    <<v[4] % 256, v[4] \div 256, v[3] % 256, v[3] \div 256,
      v[2] % 256, v[2] \div 256, v[1] % 256, v[1] \div 256>>
Uint64BE(b) ==
    <<b[1] * 256 + b[2], b[3] * 256 + b[4], b[5] * 256 + b[6], b[7] * 256 + b[8]>>
Uint64LE(b) ==
    <<b[8] * 256 + b[7], b[6] * 256 + b[5], b[4] * 256 + b[3], b[2] * 256 + b[1]>>

\* out[0], out[1], out[2], out[3] = out[2], out[3], out[0], out[1]
SwapWords32(b) == <<b[3], b[4], b[1], b[2]>>

\* the same on the four words of 8 bytes
SwapWords64Not(b) == b
SwapWords64(b) == <<b[7], b[8], b[5], b[6], b[3], b[4], b[1], b[2]>>

uint32ToBytes(endianness, wordOrder, in) ==
    IF endianness = "BIG_ENDIAN"
       THEN IF wordOrder = "LOW_WORD_FIRST"
               THEN SwapWords32(PutUint32BE(in)) ELSE PutUint32BE(in)
       ELSE IF wordOrder = "HIGH_WORD_FIRST"
               THEN SwapWords32(PutUint32LE(in)) ELSE PutUint32LE(in)

\* one turn of the loop of bytesToUint32s, on the 4 bytes in
bytesToUint32(endianness, wordOrder, in) ==
    IF endianness = "BIG_ENDIAN"
       THEN IF wordOrder = "HIGH_WORD_FIRST"
               THEN Uint32BE(in) ELSE Uint32BE(<<in[3], in[4], in[1], in[2]>>)
       ELSE IF wordOrder = "LOW_WORD_FIRST"
               THEN Uint32LE(in) ELSE Uint32LE(<<in[3], in[4], in[1], in[2]>>)

bytesToUint32s(endianness, wordOrder, in) ==
    [k \in 1..(Len(in) \div 4) |->
        bytesToUint32(endianness, wordOrder, SubSeq(in, 4 * k - 3, 4 * k))]

uint64ToBytes(endianness, wordOrder, in) ==
    IF endianness = "BIG_ENDIAN"
       THEN IF wordOrder = "LOW_WORD_FIRST"
               THEN SwapWords64(PutUint64BE(in)) ELSE PutUint64BE(in)
       ELSE IF wordOrder = "HIGH_WORD_FIRST"
               THEN SwapWords64(PutUint64LE(in)) ELSE PutUint64LE(in)

\* one turn of the loop of bytesToUint64s, on the 8 bytes in
bytesToUint64(endianness, wordOrder, in) ==
    IF endianness = "BIG_ENDIAN"
       THEN IF wordOrder = "HIGH_WORD_FIRST"
               THEN Uint64BE(in)
               ELSE Uint64BE(<<in[7], in[8], in[5], in[6], in[3], in[4], in[1], in[2]>>)
       ELSE IF wordOrder = "LOW_WORD_FIRST"
               THEN Uint64LE(in)
               ELSE Uint64LE(<<in[7], in[8], in[5], in[6], in[3], in[4], in[1], in[2]>>)

bytesToUint64s(endianness, wordOrder, in) ==
    [k \in 1..(Len(in) \div 8) |->
        bytesToUint64(endianness, wordOrder, SubSeq(in, 8 * k - 7, 8 * k))]


(***************************************************************************)
(* ModbusServer: Start, Stop, acceptTCPClients, handleTCPClient.           *)
(***************************************************************************)

\* a nil *pdu, no handler call, nothing served yet
NoPdu == [nil |-> TRUE]
NoCall == [fn |-> "none"]

\* the request loop is not running
DispatchIdle ==
    /\ hpc = "returned"
    /\ req = NoPdu
    /\ res = NoPdu
    /\ err = "nil"
    /\ call = NoCall
    /\ tClosed = FALSE
    /\ wrote = "none"

\* no exchange is running on the MBAP transport
NoHdr == [nil |-> TRUE]
NoRet == [nil |-> TRUE]
MbapIdle ==
    /\ lastTxnId = 0
    /\ tpc = "idle"
    /\ hdr = NoHdr
    /\ rx = <<>>
    /\ sent = <<>>
    /\ ret = NoRet
    /\ nframes = 0
    /\ answered = {}
    /\ ncalls = 0
    /\ cur = 0

\* no caller is using the client
NoAccess == [nil |-> TRUE]
ClientIdle ==
    /\ lock = 0
    /\ cpc = [c \in Callers |-> "idle"]
    /\ cmeth = [c \in Callers |-> "none"]
    /\ encoding = [endianness |-> "BIG_ENDIAN", wordOrder |-> "HIGH_WORD_FIRST"]
    /\ entered = [c \in Callers |-> NoAccess]
    /\ access = NoAccess

\* no request method is running
NoArgs == [meth |-> "none"]
CallIdle ==
    /\ mpc = "idle"
    /\ margs = NoArgs
    /\ mreq = NoPdu
    /\ mres = NoPdu
    /\ merr = "nil"

\* ReadRequest was never called
NoRead == [nil |-> TRUE]
HistIdle ==
    /\ called = NoRead
    /\ goodTxn = -1
    /\ wroteTxn = <<>>

\* no function is being applied
NoValue == [nil |-> TRUE]
\* no deadline is set
TimeIdle == timeLeft = 0

PureIdle ==
    /\ ppc = "idle"
    /\ pin = NoValue
    /\ pmid = NoValue
    /\ pout = NoValue

\* the server is not started
ServerIdle ==
    /\ started = FALSE
    /\ tcpListener = "nil"
    /\ tcpClients = <<>>
    /\ sockClosed = {}
    /\ accLoop = [top |-> 0, open |-> 0, closed |-> 0, check |-> {}, reject |-> {}]
    /\ sess = [c \in Conns |-> "none"]
    /\ nconn = 0
    /\ tlsMode = FALSE
    /\ sawFull = {}
    /\ peerCert = [c \in Conns |-> "unknown"]

ServerInit ==
    /\ TimeIdle
    /\ DispatchIdle
    /\ MbapIdle
    /\ ClientIdle
    /\ CallIdle
    /\ HistIdle
    /\ PureIdle
    /\ started = FALSE
    /\ tcpListener = "nil"
    /\ tcpClients = <<>>
    /\ sockClosed = {}
    /\ accLoop = [top |-> 0, open |-> 0, closed |-> 0, check |-> {}, reject |-> {}]
    /\ sess = [c \in Conns |-> "none"]
    /\ nconn = 0
    /\ tlsMode \in BOOLEAN
    /\ sawFull = {}
    /\ peerCert = [c \in Conns |-> "unknown"]

\* the number of acceptTCPClients goroutines that have not returned
NumLoops ==
    accLoop.top + accLoop.open + accLoop.closed
        + Cardinality(accLoop.check) + Cardinality(accLoop.reject)

\* Start(): under ms.lock: net.Listen, go ms.acceptTCPClients(), started = true.
\* A call on a started server, or one whose net.Listen fails, returns without
\* changing anything and is a stuttering step.
Start ==
    /\ ~started
    /\ NumLoops < MaxLoops
    /\ tcpListener' = "open"
    /\ accLoop' = [accLoop EXCEPT !.top = @ + 1]
    /\ started' = TRUE
    /\ UNCHANGED <<notServer, tcpClients, sockClosed, sess, nconn, tlsMode, sawFull, peerCert>>

\* the sockets Stop() closes: every entry of ms.tcpClients
StopClosesNone(socks, clients) == socks
StopCloses(socks, clients) == socks \cup Range(clients)

\* the listener once Stop() has called ms.tcpListener.Close()
StopKeepsListener(l) == l
StopClosesListener(l) == "closed"

\* Stop(): under ms.lock. A call on a stopped server returns at once and is a
\* stuttering step. The goroutines blocked in Accept() on the listener are
\* from now on blocked on a closed listener.
Stop ==
    /\ started
    /\ started' = FALSE
    /\ tcpListener' = StopClosesListener(tcpListener)
    /\ accLoop' = IF tcpListener' = "closed"
                     THEN [accLoop EXCEPT !.open = 0, !.closed = @ + accLoop.open]
                     ELSE accLoop
    /\ sockClosed' = StopCloses(sockClosed, tcpClients)
    /\ UNCHANGED <<notServer, tcpClients, sess, nconn, tlsMode, sawFull, peerCert>>

\* the connection limit applied under ms.lock by acceptTCPClients
AdmitsAtLimit(isStarted, clients) == isStarted /\ Len(clients) <= MaxClients
AdmitsWhenStopped(isStarted, clients) == Len(clients) < MaxClients
Admits(isStarted, clients) == isStarted /\ Len(clients) < MaxClients

\* acceptTCPClients: the call ms.tcpListener.Accept() reads the field (without
\* the lock) and blocks on the listener it finds there
LoopCallAccept ==
    /\ accLoop.top > 0
    /\ accLoop' = IF tcpListener = "open"
                     THEN [accLoop EXCEPT !.top = @ - 1, !.open = @ + 1]
                     ELSE [accLoop EXCEPT !.top = @ - 1, !.closed = @ + 1]
    /\ UNCHANGED <<notServer, started, tcpListener, tcpClients, sockClosed,
                   sess, nconn, tlsMode, sawFull, peerCert>>

\* Accept() returns a new connection. (An error other than net.ErrClosed is
\* logged and the loop calls Accept() again.)
LoopAccept ==
    /\ accLoop.open > 0
    /\ nconn < MaxConns
    /\ nconn' = nconn + 1
    /\ accLoop' = [accLoop EXCEPT !.open = @ - 1, !.check = @ \cup {nconn + 1}]
    /\ UNCHANGED <<notServer, started, tcpListener, tcpClients, sockClosed,
                   sess, tlsMode, sawFull, peerCert>>

\* Accept() fails with net.ErrClosed: the goroutine returns
LoopExit ==
    /\ accLoop.closed > 0
    /\ accLoop' = [accLoop EXCEPT !.closed = @ - 1]
    /\ UNCHANGED <<notServer, started, tcpListener, tcpClients, sockClosed,
                   sess, nconn, tlsMode, sawFull, peerCert>>

\* the critical section of acceptTCPClients and, when accepted, the go
\* statement that starts handleTCPClient for the connection, up to its switch
\* on ms.transportType
LoopCheck(sock) ==
    /\ sock \in accLoop.check
    /\ sawFull' = IF Len(tcpClients) >= MaxClients
                     THEN sawFull \cup {sock} ELSE sawFull
    /\ IF Admits(started, tcpClients)
          THEN /\ tcpClients' = Append(tcpClients, sock)
               /\ sess' = [sess EXCEPT ![sock] =
                              IF tlsMode THEN "tls" ELSE "read"]
               /\ accLoop' = [accLoop EXCEPT !.check = @ \ {sock},
                                             !.top = @ + 1]
          ELSE /\ accLoop' = [accLoop EXCEPT !.check = @ \ {sock},
                                             !.reject = @ \cup {sock}]
               /\ UNCHANGED <<notServer, tcpClients, sess>>
    /\ UNCHANGED <<notServer, started, tcpListener, sockClosed, nconn, tlsMode, peerCert>>

\* the rejected connection is discarded: sock.Close()
LoopRejectKeepsOpen(sock) ==
    /\ sock \in accLoop.reject
    /\ accLoop' = [accLoop EXCEPT !.reject = @ \ {sock}, !.top = @ + 1]
    /\ UNCHANGED <<notServer, started, tcpListener, tcpClients, sockClosed, sess, nconn,
                   tlsMode, sawFull, peerCert>>

LoopReject(sock) ==
    /\ sock \in accLoop.reject
    /\ sockClosed' = sockClosed \cup {sock}
    /\ accLoop' = [accLoop EXCEPT !.reject = @ \ {sock}, !.top = @ + 1]
    /\ UNCHANGED <<notServer, started, tcpListener, tcpClients, sess, nconn,
                   tlsMode, sawFull, peerCert>>

\* what a client may present in the handshake
PeerCerts == {"none", "untrusted", "verified"}

\* startTLS: the ClientAuth field of the tls.Config
ClientAuthRequireAny == "RequireAnyClientCert"
ClientAuth == "RequireAndVerifyClientCert"

\* tlsSock.Handshake() with the client authentication policy auth, as far as
\* the client's certificate goes
HandshakeAccepts(auth, cert) ==
    CASE auth = "RequireAndVerifyClientCert" -> cert = "verified"
      [] auth = "RequireAnyClientCert" -> cert # "none"
      [] auth = "VerifyClientCertIfGiven" -> cert # "untrusted"
      [] OTHER -> TRUE

\* startTLS: the handshake fails (always so on a closed socket, and when the
\* policy refuses the client's certificate), or no peer certificate is
\* found, and handleTransport is skipped; or startTLS succeeds and
\* handleTransport runs over the TLS tunnel
SessTLS(c) ==
    /\ sess[c] = "tls"
    /\ \E cert \in PeerCerts :
           /\ peerCert' = [peerCert EXCEPT ![c] = cert]
           /\ \/ sess' = [sess EXCEPT ![c] = "remove"]
              \/ /\ c \notin sockClosed
                 /\ HandshakeAccepts(ClientAuth, cert)
                 /\ cert # "none"
                 /\ sess' = [sess EXCEPT ![c] = "read"]
    /\ UNCHANGED <<notServer, started, tcpListener, tcpClients, sockClosed,
                   accLoop, nconn, tlsMode, sawFull>>

\* handleTransport: t.ReadRequest() fails (peer disconnect, idle timeout, read
\* error, closed socket) and handleTransport returns, or it yields a request
SessRead(c) ==
    /\ sess[c] = "read"
    /\ \/ sess' = [sess EXCEPT ![c] = "remove"]
       \/ /\ c \notin sockClosed
          /\ sess' = [sess EXCEPT ![c] = "handle"]
    /\ UNCHANGED <<notServer, started, tcpListener, tcpClients, sockClosed,
                   accLoop, nconn, tlsMode, sawFull, peerCert>>

\* handleTransport: the rest of the loop body. Processing the request yields
\* ErrProtocolError (t.Close() and return), or a response or an exception is
\* written (a failed write is logged) and the loop reads the next request.
\* SpecDispatch models this step request by request.
SessHandle(c) ==
    /\ sess[c] = "handle"
    /\ \/ /\ sess' = [sess EXCEPT ![c] = "remove"]
          /\ sockClosed' = sockClosed \cup {c}
       \/ /\ sess' = [sess EXCEPT ![c] = "read"]
          /\ UNCHANGED sockClosed
    /\ UNCHANGED <<notServer, started, tcpListener, tcpClients, accLoop,
                   nconn, tlsMode, sawFull, peerCert>>

\* the index of sock in clients, 0 when absent
IndexOf(clients, sock) ==
    IF \E i \in 1..Len(clients) : clients[i] = sock
       THEN CHOOSE i \in 1..Len(clients) :
                /\ clients[i] = sock
                /\ \A j \in 1..(i - 1) : clients[j] # sock
       ELSE 0

\* handleTCPClient: the removal loop: the entry is overwritten with the last
\* one and the slice is shortened by one
RemoveKeeps(clients, sock) == clients
RemoveClient(clients, sock) ==
    LET i == IndexOf(clients, sock)
        n == Len(clients)
    IN  IF i = 0 THEN clients
        ELSE SubSeq([clients EXCEPT ![i] = clients[n]], 1, n - 1)

\* handleTCPClient: the critical section that removes the connection
SessRemove(c) ==
    /\ sess[c] = "remove"
    /\ tcpClients' = RemoveClient(tcpClients, c)
    /\ sess' = [sess EXCEPT ![c] = "close"]
    /\ peerCert' = [peerCert EXCEPT ![c] = "unknown"]
    /\ UNCHANGED <<notServer, started, tcpListener, sockClosed, accLoop,
                   nconn, tlsMode, sawFull>>

\* handleTCPClient: sock.Close() and return
SessClose(c) ==
    /\ sess[c] = "close"
    /\ sockClosed' = sockClosed \cup {c}
    /\ sess' = [sess EXCEPT ![c] = "done"]
    /\ UNCHANGED <<notServer, started, tcpListener, tcpClients, accLoop,
                   nconn, tlsMode, sawFull, peerCert>>

SessStep(c) ==
    \/ SessTLS(c)
    \/ SessRead(c)
    \/ SessHandle(c)
    \/ SessRemove(c)
    \/ SessClose(c)

ServerNext ==
    \/ Start
    \/ Stop
    \/ LoopCallAccept
    \/ LoopAccept
    \/ LoopExit
    \/ \E c \in Conns : LoopCheck(c)
    \/ \E c \in Conns : LoopReject(c)
    \/ \E c \in Conns : SessStep(c)

SpecServer == ServerInit /\ [][ServerNext]_vars

(***************************************************************************)
(* handleTransport: the request loop of one session.                       *)
(***************************************************************************)

\* The requests ReadRequest may return: every function code of interest with
\* addresses and quantities on both sides of each limit, and payloads that
\* are too short, exact, or carry a byte count and data that fit or not.
ReqUnitIds == {1}
ReqFunctionCodes ==
    {fcReadCoils, fcReadDiscreteInputs, fcReadHoldingRegisters,
     fcReadInputRegisters, fcWriteSingleCoil, fcWriteSingleRegister,
     fcWriteMultipleCoils, fcWriteMultipleRegisters, fcMaskWriteRegister,
     131}
ReqAddrs == {0, 5, 65411, 65535}
ReqQuantities ==
    {0, 1, 2, 9, 123, 124, 125, 126, 1968, 1969, 2000, 2001, 65280, 65535}

\* byte i of the data of a write request
DataByte(i) == (i * 7 + 1) % 256
ReqData(n) == [i \in 1..n |-> DataByte(i)]
ReqByteCounts(q) == {ByteCount(q) % 256, (2 * q) % 256, 1}
ReqDataLens(q) == {n \in {ByteCount(q), 2 * q, 1} : n >= 1 /\ n <= 247}

ReqPayloads(addr, q) ==
    LET head == uint16ToBytes("BIG_ENDIAN", addr) \o uint16ToBytes("BIG_ENDIAN", q)
    IN  {SubSeq(head, 1, 3), head}
        \cup {head \o <<bc>> : bc \in ReqByteCounts(q)}
        \cup {head \o <<bc>> \o ReqData(n) :
                  bc \in ReqByteCounts(q), n \in ReqDataLens(q)}

Requests ==
    UNION {UNION {{[unitId |-> u, functionCode |-> fc, payload |-> pl] :
                      u \in ReqUnitIds, fc \in ReqFunctionCodes,
                      pl \in ReqPayloads(addr, q)} :
                  addr \in ReqAddrs} : q \in ReqQuantities}

\* the address and quantity fields of a request (0 when the payload is too
\* short to hold them)
ReqAddr(r) ==
    IF Len(r.payload) >= 2
       THEN bytesToUint16("BIG_ENDIAN", SubSeq(r.payload, 1, 2)) ELSE 0
ReqQty(r) ==
    IF Len(r.payload) >= 4
       THEN bytesToUint16("BIG_ENDIAN", SubSeq(r.payload, 3, 4)) ELSE 0

\* What the user's handler may return: any error (nil, each modbus error,
\* ErrProtocolError, any other error) and, with a nil error, as many items
\* as requested, one more or one less.
HandlerErrors == {"nil", "ErrProtocolError", "other error"} \cup ModbusErrors
HandlerCounts(q) ==
    IF q > 2000 THEN {0}
    ELSE {q, q + 1} \cup (IF q > 0 THEN {q - 1} ELSE {})
HandlerReturns(r) ==
    {[err |-> e, n |-> n] : e \in HandlerErrors, n \in HandlerCounts(ReqQty(r))}
HandlerBools(n) == [i \in 1..n |-> i % 3 = 1]
\* the values HandleCoils or HandleDiscreteInputs returned: those of h when
\* it names them, n values of the pattern above otherwise
ReturnedBools(h) == IF "bools" \in DOMAIN h THEN h.bools ELSE HandlerBools(h.n)
HandlerRegs(n) == [i \in 1..n |-> (i * 257) % 65536]

\* the errors ReadRequest may fail with
ReadErrors == {"i/o error", "ErrProtocolError", "ErrUnknownProtocolId"}

\* len(req.payload) != 4
FixedLengthAtLeast(payload) == Len(payload) >= 4
FixedLengthOK(payload) == Len(payload) = 4

\* the quantity limits of the function codes that carry a quantity
QuantityOK(fc, quantity) ==
    CASE fc \in {fcReadCoils, fcReadDiscreteInputs} ->
             ~(quantity > 2000 \/ quantity = 0)
      [] fc = fcWriteMultipleCoils ->
             ~(quantity > 1968 \/ quantity = 0)
      [] fc \in {fcReadHoldingRegisters, fcReadInputRegisters} ->
             ~(quantity > 125 \/ quantity = 0)
      [] fc = fcWriteMultipleRegisters ->
             ~(quantity > 123 \/ quantity = 0)
      [] OTHER -> TRUE

\* uint32(addr) + uint32(quantity) - 1 > 0xffff: the subtraction wraps to
\* 0xffffffff when the sum is 0
PastEndNever(addr, quantity) == FALSE
PastEnd(addr, quantity) ==
    IF addr + quantity = 0 THEN TRUE ELSE addr + quantity - 1 > 65535

\* the outcome of the switch: err, res and the handler call made, if any
Failed(e, c) == [err |-> e, res |-> NoPdu, call |-> c]
Replied(r, payload, c) ==
    [err |-> "nil",
     res |-> [unitId |-> r.unitId, functionCode |-> r.functionCode,
              payload |-> payload],
     call |-> c]
HandlerCall(fn, r, addr, quantity, isWrite, args, h) ==
    [fn |-> fn, unitId |-> r.unitId, addr |-> addr, quantity |-> quantity,
     isWrite |-> isWrite, args |-> args, returned |-> h]

\* err == nil && resCount != int(quantity)
CountMismatchNever(h, quantity) == FALSE
CountMismatch(h, quantity) == h.err = "nil" /\ h.n # quantity

\* case fcReadCoils, fcReadDiscreteInputs
ServeReadBits(r, h) ==
    LET addr == ReqAddr(r)
        quantity == ReqQty(r)
        c == HandlerCall(IF r.functionCode = fcReadCoils
                            THEN "HandleCoils" ELSE "HandleDiscreteInputs",
                         r, addr, quantity, FALSE, <<>>, h)
    IN  IF ~FixedLengthOK(r.payload) THEN Failed("ErrProtocolError", NoCall)
        ELSE IF ~QuantityOK(r.functionCode, quantity)
            THEN Failed("ErrProtocolError", NoCall)
        ELSE IF PastEnd(addr, quantity)
            THEN Failed("ErrIllegalDataAddress", NoCall)
        ELSE IF CountMismatch(h, quantity)
            THEN Failed("ErrServerDeviceFailure", c)
        ELSE IF h.err # "nil" THEN Failed(h.err, c)
        ELSE Replied(r, <<ByteCount(h.n) % 256>>
                            \o encodeBools(ReturnedBools(h)), c)

\* the value field of a write-single-coil request is 0xff00 or 0x0000
CoilValueAny(payload) == TRUE
CoilValueOK(payload) ==
    ~((payload[3] # 255 /\ payload[3] # 0) \/ payload[4] # 0)

\* case fcWriteSingleCoil
ServeWriteSingleCoil(r, h) ==
    LET addr == ReqAddr(r)
        c == HandlerCall("HandleCoils", r, addr, 1, TRUE,
                         <<r.payload[3] = 255>>, h)
    IN  IF ~FixedLengthOK(r.payload) THEN Failed("ErrProtocolError", NoCall)
        ELSE IF ~CoilValueOK(r.payload)
            THEN Failed("ErrProtocolError", NoCall)
        ELSE IF h.err # "nil" THEN Failed(h.err, c)
        ELSE Replied(r, uint16ToBytes("BIG_ENDIAN", addr)
                            \o <<r.payload[3], r.payload[4]>>, c)

\* case fcWriteMultipleCoils
ServeWriteMultipleCoils(r, h) ==
    LET addr == ReqAddr(r)
        quantity == ReqQty(r)
        expectedLen == ByteCount(quantity)
        c == HandlerCall("HandleCoils", r, addr, quantity, TRUE,
                         decodeBools(quantity,
                                     SubSeq(r.payload, 6, Len(r.payload))), h)
    IN  IF Len(r.payload) < 6 THEN Failed("ErrProtocolError", NoCall)
        ELSE IF ~QuantityOK(r.functionCode, quantity)
            THEN Failed("ErrProtocolError", NoCall)
        ELSE IF PastEnd(addr, quantity)
            THEN Failed("ErrIllegalDataAddress", NoCall)
        ELSE IF r.payload[5] # expectedLen % 256
            THEN Failed("ErrProtocolError", NoCall)
        ELSE IF Len(r.payload) - 5 # expectedLen
            THEN Failed("ErrProtocolError", NoCall)
        ELSE IF h.err # "nil" THEN Failed(h.err, c)
        ELSE Replied(r, uint16ToBytes("BIG_ENDIAN", addr)
                            \o uint16ToBytes("BIG_ENDIAN", quantity), c)

\* case fcReadHoldingRegisters, fcReadInputRegisters
ServeReadRegisters(r, h) ==
    LET addr == ReqAddr(r)
        quantity == ReqQty(r)
        c == HandlerCall(IF r.functionCode = fcReadHoldingRegisters
                            THEN "HandleHoldingRegisters"
                            ELSE "HandleInputRegisters",
                         r, addr, quantity, FALSE, <<>>, h)
    IN  IF ~FixedLengthOK(r.payload) THEN Failed("ErrProtocolError", NoCall)
        ELSE IF ~QuantityOK(r.functionCode, quantity)
            THEN Failed("ErrProtocolError", NoCall)
        ELSE IF PastEnd(addr, quantity)
            THEN Failed("ErrIllegalDataAddress", NoCall)
        ELSE IF CountMismatch(h, quantity)
            THEN Failed("ErrServerDeviceFailure", c)
        ELSE IF h.err # "nil" THEN Failed(h.err, c)
        ELSE Replied(r, <<(h.n * 2) % 256>>
                            \o uint16sToBytes("BIG_ENDIAN", HandlerRegs(h.n)), c)

\* case fcWriteSingleRegister
ServeWriteSingleRegister(r, h) ==
    LET addr == ReqAddr(r)
        value == ReqQty(r)
        c == HandlerCall("HandleHoldingRegisters", r, addr, 1, TRUE, <<value>>, h)
    IN  IF ~FixedLengthOK(r.payload) THEN Failed("ErrProtocolError", NoCall)
        ELSE IF h.err # "nil" THEN Failed(h.err, c)
        ELSE Replied(r, uint16ToBytes("BIG_ENDIAN", addr)
                            \o uint16ToBytes("BIG_ENDIAN", value), c)

\* case fcWriteMultipleRegisters
ServeWriteMultipleRegisters(r, h) ==
    LET addr == ReqAddr(r)
        quantity == ReqQty(r)
        expectedLen == quantity * 2
        c == HandlerCall("HandleHoldingRegisters", r, addr, quantity, TRUE,
                         bytesToUint16s("BIG_ENDIAN",
                                        SubSeq(r.payload, 6, Len(r.payload))), h)
    IN  IF Len(r.payload) < 6 THEN Failed("ErrProtocolError", NoCall)
        ELSE IF ~QuantityOK(r.functionCode, quantity)
            THEN Failed("ErrProtocolError", NoCall)
        ELSE IF PastEnd(addr, quantity)
            THEN Failed("ErrIllegalDataAddress", NoCall)
        ELSE IF r.payload[5] # expectedLen % 256
            THEN Failed("ErrProtocolError", NoCall)
        ELSE IF Len(r.payload) - 5 # expectedLen
            THEN Failed("ErrProtocolError", NoCall)
        ELSE IF h.err # "nil" THEN Failed(h.err, c)
        ELSE Replied(r, uint16ToBytes("BIG_ENDIAN", addr)
                            \o uint16ToBytes("BIG_ENDIAN", quantity), c)

\* the exception response to request r for error code
ExceptionPdu(r, code) ==
    [unitId |-> r.unitId, functionCode |-> OrHighBit(r.functionCode),
     payload |-> <<code>>]

\* default: an unsupported function code
ServeDefaultCloses(r) == [err |-> "ErrProtocolError", res |-> NoPdu, call |-> NoCall]
ServeDefault(r) ==
    [err |-> "nil", res |-> ExceptionPdu(r, exIllegalFunction), call |-> NoCall]

\* switch req.functionCode, with h what the handler returns if it is called
Serve(r, h) ==
    CASE r.functionCode \in {fcReadCoils, fcReadDiscreteInputs} ->
             ServeReadBits(r, h)
      [] r.functionCode = fcWriteSingleCoil -> ServeWriteSingleCoil(r, h)
      [] r.functionCode = fcWriteMultipleCoils -> ServeWriteMultipleCoils(r, h)
      [] r.functionCode \in {fcReadHoldingRegisters, fcReadInputRegisters} ->
             ServeReadRegisters(r, h)
      [] r.functionCode = fcWriteSingleRegister -> ServeWriteSingleRegister(r, h)
      [] r.functionCode = fcWriteMultipleRegisters ->
             ServeWriteMultipleRegisters(r, h)
      [] OTHER -> ServeDefault(r)

\* err == ErrProtocolError: close the transport and return
ClosesLinkNever(e) == FALSE
ClosesLink(e) == e = "ErrProtocolError"

DispatchInit ==
    /\ TimeIdle
    /\ MbapIdle
    /\ ClientIdle
    /\ CallIdle
    /\ HistIdle
    /\ PureIdle
    /\ started = FALSE
    /\ tcpListener = "nil"
    /\ tcpClients = <<>>
    /\ sockClosed = {}
    /\ accLoop = [top |-> 0, open |-> 0, closed |-> 0, check |-> {}, reject |-> {}]
    /\ sess = [c \in Conns |-> "none"]
    /\ nconn = 0
    /\ tlsMode = FALSE
    /\ sawFull = {}
    /\ peerCert = [c \in Conns |-> "unknown"]
    /\ hpc = "read"
    /\ req = NoPdu
    /\ res = NoPdu
    /\ err = "nil"
    /\ call = NoCall
    /\ tClosed = FALSE
    /\ wrote = "none"

\* req, err = t.ReadRequest(): an error ends handleTransport
HtReadRequest ==
    /\ hpc = "read"
    /\ \/ \E r \in Requests :
              /\ req' = r
              /\ err' = "nil"
              /\ hpc' = "dispatch"
       \/ \E e \in ReadErrors :
              /\ req' = NoPdu
              /\ err' = e
              /\ hpc' = "returned"
    /\ UNCHANGED <<notDispatch, res, call, tClosed, wrote>>

\* the switch on req.functionCode, the handler call included, and the check
\* that follows it (no error and no response is a server failure)
HtDispatch ==
    /\ hpc = "dispatch"
    /\ \E h \in HandlerReturns(req) :
           LET out == Serve(req, h) IN
           /\ err' = IF out.err = "nil" /\ out.res = NoPdu
                         THEN "ErrServerDeviceFailure" ELSE out.err
           /\ res' = out.res
           /\ call' = out.call
    /\ hpc' = "respond"
    /\ UNCHANGED <<notDispatch, req, tClosed, wrote>>

HtRespondWriteFailureReturns ==
    /\ hpc = "respond"
    /\ IF ClosesLink(err)
          THEN /\ tClosed' = TRUE
               /\ hpc' = "returned"
               /\ UNCHANGED <<res, err, wrote>>
          ELSE /\ res' = IF err # "nil"
                            THEN ExceptionPdu(req, mapErrorToExceptionCode(err))
                            ELSE res
               /\ \E ok \in BOOLEAN :
                      /\ wrote' = IF ok THEN "written" ELSE "write failed"
                      /\ err' = IF ok THEN "nil" ELSE "i/o error"
                      /\ hpc' = IF ok THEN "reset" ELSE "returned"
               /\ UNCHANGED tClosed
    /\ UNCHANGED <<notDispatch, req, call>>

\* after the switch: a protocol error closes the transport and returns; any
\* other error becomes an exception response; the response is written and a
\* failure to write is only logged
HtRespond ==
    /\ hpc = "respond"
    /\ IF ClosesLink(err)
          THEN /\ tClosed' = TRUE
               /\ hpc' = "returned"
               /\ UNCHANGED <<res, err, wrote>>
          ELSE /\ res' = IF err # "nil"
                            THEN ExceptionPdu(req, mapErrorToExceptionCode(err))
                            ELSE res
               /\ \E ok \in BOOLEAN :
                      /\ wrote' = IF ok THEN "written" ELSE "write failed"
                      /\ err' = IF ok THEN "nil" ELSE "i/o error"
               /\ hpc' = "reset"
               /\ UNCHANGED tClosed
    /\ UNCHANGED <<notDispatch, req, call>>

\* the bottom of the loop: req and res are reset and the loop starts over
HtReset ==
    /\ hpc = "reset"
    /\ req' = NoPdu
    /\ res' = NoPdu
    /\ call' = NoCall
    /\ wrote' = "none"
    /\ hpc' = "read"
    /\ UNCHANGED <<notDispatch, err, tClosed>>

DispatchNext ==
    \/ HtReadRequest
    \/ HtDispatch
    \/ HtRespond
    \/ HtReset

SpecDispatch == DispatchInit /\ [][DispatchNext]_vars

(***************************************************************************)
(* tcpTransport: ExecuteRequest, readResponse, readMBAPFrame, and the peer. *)
(***************************************************************************)

maxTCPFrameLength == 260
mbapHeaderLength == 7

\* MBAP header + PDU, as bytes
assembleMBAPFrame(txnId, p) ==
    uint16ToBytes("BIG_ENDIAN", txnId)
        \o <<0, 0>>
        \o uint16ToBytes("BIG_ENDIAN", (2 + Len(p.payload)) % 65536)
        \o <<p.unitId, p.functionCode>>
        \o p.payload

\* the requests the client executes: read 1 or 3 holding registers at 0
ClientRequests ==
    {[unitId |-> 1, functionCode |-> fcReadHoldingRegisters,
      payload |-> uint16ToBytes("BIG_ENDIAN", 0) \o uint16ToBytes("BIG_ENDIAN", q)] :
         q \in {1, 3}}

\* the values tt.lastTxnId may hold when the first request of a behaviour is
\* executed: a fresh transport, one that has run 0x0304 requests, and one
\* about to wrap
EarlierTxnIds == {0, 772, 65535}

\* the register values the peer may reply with
ReplyRegs(q) == IF q = 3 THEN {<<0, 2, 259>>, <<7, 8, 9>>} ELSE {<<10>>}

\* the peer's reply to a request frame it received
ReplyPdu(frame, regs) ==
    [unitId |-> frame[7], functionCode |-> frame[8],
     payload |-> <<(2 * Len(regs)) % 256>> \o uint16sToBytes("BIG_ENDIAN", regs)]

\* other frames the peer may send: one with a foreign protocol identifier
\* and a header announcing a length of 0
OtherFrames == {<<0, 9, 0, 1, 0, 2, 1, 3>>, <<0, 9, 0, 0, 0, 0, 1>>}

MbapInit ==
    /\ TimeIdle
    /\ started = FALSE
    /\ tcpListener = "nil"
    /\ tcpClients = <<>>
    /\ sockClosed = {}
    /\ accLoop = [top |-> 0, open |-> 0, closed |-> 0, check |-> {}, reject |-> {}]
    /\ sess = [c \in Conns |-> "none"]
    /\ nconn = 0
    /\ tlsMode = FALSE
    /\ sawFull = {}
    /\ peerCert = [c \in Conns |-> "unknown"]
    /\ DispatchIdle
    /\ ClientIdle
    /\ CallIdle
    /\ HistIdle
    /\ PureIdle
    /\ lastTxnId \in EarlierTxnIds
    /\ tpc = "idle"
    /\ hdr = NoHdr
    /\ rx = <<>>
    /\ sent = <<>>
    /\ ret = NoRet
    /\ nframes = 0
    /\ answered = {}
    /\ ncalls = 0
    /\ cur = 0

\* ExecuteRequest up to the call of readResponse: SetDeadline may fail; the
\* transaction id is incremented; the write may fail
ExecuteRequest(r) ==
    /\ tpc = "idle"
    /\ ncalls < MaxRequests
    /\ ncalls' = ncalls + 1
    /\ \/ /\ ret' = [res |-> NoPdu, err |-> "i/o error"]
          /\ cur' = 0
          /\ UNCHANGED <<lastTxnId, sent, tpc>>
       \/ /\ lastTxnId' = (lastTxnId + 1) % 65536
          /\ \/ /\ ret' = [res |-> NoPdu, err |-> "i/o error"]
                /\ cur' = 0
                /\ UNCHANGED <<sent, tpc>>
             \/ /\ sent' = Append(sent, assembleMBAPFrame(lastTxnId', r))
                /\ cur' = Len(sent')
                /\ ret' = NoRet
                /\ tpc' = "header"
    /\ UNCHANGED <<notMbap, hdr, rx, nframes, answered>>

DecodeHeaderWholeLength(rxbuf) ==
    [txnId |-> bytesToUint16("BIG_ENDIAN", SubSeq(rxbuf, 1, 2)),
     protocolId |-> bytesToUint16("BIG_ENDIAN", SubSeq(rxbuf, 3, 4)),
     unitId |-> rxbuf[7],
     bytesNeeded |-> bytesToUint16("BIG_ENDIAN", SubSeq(rxbuf, 5, 6))]
\* the locals of readMBAPFrame once the header is read
DecodeHeader(rxbuf) ==
    [txnId |-> bytesToUint16("BIG_ENDIAN", SubSeq(rxbuf, 1, 2)),
     protocolId |-> bytesToUint16("BIG_ENDIAN", SubSeq(rxbuf, 3, 4)),
     unitId |-> rxbuf[7],
     bytesNeeded |-> bytesToUint16("BIG_ENDIAN", SubSeq(rxbuf, 5, 6)) - 1]

\* readMBAPFrame: the header has arrived, io.ReadFull returns it; the length
\* is checked
ReadHeader ==
    /\ tpc = "header"
    /\ Len(rx) >= mbapHeaderLength
    /\ LET h == DecodeHeader(SubSeq(rx, 1, mbapHeaderLength)) IN
       IF h.bytesNeeded + mbapHeaderLength > maxTCPFrameLength \/ h.bytesNeeded <= 0
          THEN /\ ret' = [res |-> NoPdu, err |-> "ErrProtocolError"]
               /\ tpc' = "idle"
               /\ hdr' = NoHdr
          ELSE /\ hdr' = h
               /\ tpc' = "body"
               /\ UNCHANGED ret
    /\ rx' = SubSeq(rx, mbapHeaderLength + 1, Len(rx))
    /\ UNCHANGED <<notMbap, lastTxnId, sent, nframes, answered, ncalls, cur>>

\* readResponse: tt.lastTxnId != txnId
Skips(last, txnId) == last # txnId

\* readMBAPFrame: io.ReadFull of the PDU returns; readResponse skips the
\* frame (foreign protocol id, other transaction id) or returns it
ReadBody ==
    /\ tpc = "body"
    /\ Len(rx) >= hdr.bytesNeeded
    /\ LET rxbuf == SubSeq(rx, 1, hdr.bytesNeeded)
           p == [unitId |-> hdr.unitId, functionCode |-> rxbuf[1],
                 payload |-> SubSeq(rxbuf, 2, Len(rxbuf))]
       IN  IF hdr.protocolId # 0 \/ Skips(lastTxnId, hdr.txnId)
              THEN /\ tpc' = "header"
                   /\ UNCHANGED ret
              ELSE /\ tpc' = "idle"
                   /\ ret' = [res |-> p, err |-> "nil"]
    /\ rx' = SubSeq(rx, hdr.bytesNeeded + 1, Len(rx))
    /\ hdr' = NoHdr
    /\ UNCHANGED <<notMbap, lastTxnId, sent, nframes, answered, ncalls, cur>>

\* the deadline expires during io.ReadFull, before all the bytes it waits
\* for have arrived: the k bytes that had arrived are read and lost
ReadTimeout ==
    /\ tpc \in {"header", "body"}
    /\ LET need == IF tpc = "header" THEN mbapHeaderLength ELSE hdr.bytesNeeded IN
       \E k \in 0..(need - 1) :
           /\ k <= Len(rx)
           /\ rx' = SubSeq(rx, k + 1, Len(rx))
    /\ ret' = [res |-> NoPdu, err |-> "timeout"]
    /\ tpc' = "idle"
    /\ hdr' = NoHdr
    /\ UNCHANGED <<notMbap, lastTxnId, sent, nframes, answered, ncalls, cur>>

\* the peer replies to request k, now or late
PeerReply(k) ==
    /\ nframes < MaxFrames
    /\ k \in 1..Len(sent)
    /\ \E regs \in ReplyRegs(bytesToUint16("BIG_ENDIAN", SubSeq(sent[k], 11, 12))) :
           LET p == ReplyPdu(sent[k], regs)
               txnId == bytesToUint16("BIG_ENDIAN", SubSeq(sent[k], 1, 2))
           IN  /\ rx' = rx \o assembleMBAPFrame(txnId, p)
               /\ answered' = answered \cup {<<k, p>>}
    /\ nframes' = nframes + 1
    /\ UNCHANGED <<notMbap, lastTxnId, tpc, hdr, sent, ret, ncalls, cur>>

\* the peer sends a frame that is no reply
PeerOther ==
    /\ nframes < MaxFrames
    /\ \E f \in OtherFrames : rx' = rx \o f
    /\ nframes' = nframes + 1
    /\ UNCHANGED <<notMbap, lastTxnId, tpc, hdr, sent, ret, answered, ncalls, cur>>

MbapNext ==
    \/ \E r \in ClientRequests : ExecuteRequest(r)
    \/ ReadHeader
    \/ ReadBody
    \/ ReadTimeout
    \/ \E k \in 1..MaxRequests : PeerReply(k)
    \/ PeerOther

SpecMBAP == MbapInit /\ [][MbapNext]_vars

(***************************************************************************)
(* ModbusClient: the request methods, mc.lock and the transport exchange.  *)
(***************************************************************************)

\* the methods that run a request; the public methods all go through them
Methods ==
    {"readBools", "readRegisters", "writeRegisters",
     "WriteCoil", "WriteCoils", "WriteRegister"}

\* the methods that check their parameters before building the request
Validating == {"readBools", "readRegisters", "writeRegisters", "WriteCoils"}

ClientInit ==
    /\ TimeIdle
    /\ started = FALSE
    /\ tcpListener = "nil"
    /\ tcpClients = <<>>
    /\ sockClosed = {}
    /\ accLoop = [top |-> 0, open |-> 0, closed |-> 0, check |-> {}, reject |-> {}]
    /\ sess = [c \in Conns |-> "none"]
    /\ nconn = 0
    /\ tlsMode = FALSE
    /\ sawFull = {}
    /\ peerCert = [c \in Conns |-> "unknown"]
    /\ DispatchIdle
    /\ MbapIdle
    /\ CallIdle
    /\ HistIdle
    /\ PureIdle
    /\ ClientIdle

\* a goroutine calls method m and reaches mc.lock.Lock()
Call(c, m) ==
    /\ cpc[c] = "idle"
    /\ cpc' = [cpc EXCEPT ![c] = "wait"]
    /\ cmeth' = [cmeth EXCEPT ![c] = m]
    /\ UNCHANGED <<notClient, lock, encoding, entered, access>>

\* sync.Mutex: Lock() returns when the mutex is free
CanLockAlways(holder) == TRUE
CanLock(holder) == holder = 0

\* mc.lock.Lock() returns
Lock(c) ==
    /\ cpc[c] = "wait"
    /\ CanLock(lock)
    /\ lock' = c
    /\ cpc' = [cpc EXCEPT ![c] = "locked"]
    /\ UNCHANGED <<notClient, cmeth, encoding, entered, access>>

\* the deferred mc.lock.Unlock()
Unlock(holder, c) == IF holder = c THEN 0 ELSE holder

\* a parameter check fails: the method returns without using the transport
RejectParameters(c) ==
    /\ cpc[c] = "locked"
    /\ cmeth[c] \in Validating
    /\ lock' = Unlock(lock, c)
    /\ cpc' = [cpc EXCEPT ![c] = "idle"]
    /\ cmeth' = [cmeth EXCEPT ![c] = "none"]
    /\ UNCHANGED <<notClient, encoding, entered, access>>

\* mc.executeRequest: the transport's ExecuteRequest up to the write of the
\* request frame; SetDeadline or the write may fail, and the method returns
SendRequest(c) ==
    /\ cpc[c] = "locked"
    /\ \/ /\ cpc' = [cpc EXCEPT ![c] = "exchange"]
          /\ UNCHANGED <<lock, cmeth>>
       \/ /\ lock' = Unlock(lock, c)
          /\ cpc' = [cpc EXCEPT ![c] = "idle"]
          /\ cmeth' = [cmeth EXCEPT ![c] = "none"]
    /\ UNCHANGED <<notClient, encoding, entered, access>>

\* the exchange finishes (response, error or timeout), the method decodes
\* the response and returns
FinishExchange(c) ==
    /\ cpc[c] = "exchange"
    /\ lock' = Unlock(lock, c)
    /\ cpc' = [cpc EXCEPT ![c] = "idle"]
    /\ cmeth' = [cmeth EXCEPT ![c] = "none"]
    /\ UNCHANGED <<notClient, encoding, entered, access>>

ClientNext ==
    \/ \E c \in Callers, m \in Methods : Call(c, m)
    \/ \E c \in Callers : Lock(c)
    \/ \E c \in Callers : RejectParameters(c)
    \/ \E c \in Callers : SendRequest(c)
    \/ \E c \in Callers : FinishExchange(c)

SpecClient == ClientInit /\ [][ClientNext]_vars

(***************************************************************************)
(* ModbusClient: one call of a request method: parameter checks, request,  *)
(* mc.executeRequest, verification of the response.                        *)
(***************************************************************************)

\* the parameters the methods are called with
CallUnitIds == {1}
CallAddrs == {0, 1, 65534, 65535}
BoolQuantities == {0, 1, 3, 2000, 2001, 65535}
RegQuantities == {0, 1, 3, 123, 124, 125, 126, 65535}
RegTypes == {"HOLDING_REGISTER", "INPUT_REGISTER", "other"}
RegValues == {0, 4660, 65280}
Endiannesses == {"BIG_ENDIAN", "LITTLE_ENDIAN"}
WordOrders == {"HIGH_WORD_FIRST", "LOW_WORD_FIRST"}
Uint32Values == {<<4660, 22136>>}

\* the lengths of the slices WriteCoils and WriteRegisters are called with:
\* at every address the lengths around the limits, at address 0 also lengths
\* of 2^16 and more
CoilCounts(addr) ==
    {0, 1, 3, 1968, 1969} \cup (IF addr = 0 THEN {65536, 65537} ELSE {})
RegCounts(addr) ==
    {0, 1, 3, 123, 124} \cup (IF addr = 0 THEN {32768, 32769} ELSE {})

\* the values passed and returned: slices of n values (a sequence that is
\* built once, not a function that is evaluated at every use)
CoilValues(n) == [i \in 1..n |-> i % 3 = 1] \o <<>>
\* the values handed to WriteCoils: those of a when it names them, n values
\* of the pattern above otherwise
WrittenCoils(a) == IF "values" \in DOMAIN a THEN a.values ELSE CoilValues(a.n)
RegisterValues(n) == [i \in 1..n |-> (i * 257) % 65536] \o <<>>

CallArgs ==
    {[meth |-> "readBools", unitId |-> u, addr |-> a, quantity |-> q, di |-> d] :
        u \in CallUnitIds, a \in CallAddrs, q \in BoolQuantities, d \in BOOLEAN}
    \cup
    {[meth |-> "readRegisters", unitId |-> u, addr |-> a, quantity |-> q,
      regType |-> t] :
        u \in CallUnitIds, a \in CallAddrs, q \in RegQuantities, t \in RegTypes}
    \cup
    {[meth |-> "WriteCoil", unitId |-> u, addr |-> a, value |-> v] :
        u \in CallUnitIds, a \in CallAddrs, v \in BOOLEAN}
    \cup
    {[meth |-> "WriteRegister", unitId |-> u, addr |-> a, value |-> v,
      endianness |-> e] :
        u \in CallUnitIds, a \in CallAddrs, v \in RegValues, e \in Endiannesses}
    \cup
    {[meth |-> "WriteUint32", unitId |-> u, addr |-> a, value |-> v,
      endianness |-> e, wordOrder |-> o] :
        u \in CallUnitIds, a \in CallAddrs, v \in Uint32Values,
        e \in Endiannesses, o \in WordOrders}
    \cup
    UNION {{[meth |-> "WriteCoils", unitId |-> u, addr |-> a, n |-> n] :
               u \in CallUnitIds, n \in CoilCounts(a)} : a \in CallAddrs}
    \cup
    UNION {{[meth |-> "WriteRegisters", unitId |-> u, addr |-> a, n |-> n,
             endianness |-> e] :
               u \in CallUnitIds, n \in RegCounts(a), e \in Endiannesses} :
           a \in CallAddrs}

\* what a method does before the exchange: it returns an error, or hands a
\* request to mc.executeRequest
Rejected == [err |-> "ErrUnexpectedParameters", req |-> NoPdu]
Sends(rq) == [err |-> "nil", req |-> rq]

\* uint32(addr) + uint32(quantity) - 1 > 0xffff, in the client's methods
ClientPastEnd(addr, quantity) ==
    IF addr + quantity = 0 THEN TRUE ELSE addr + quantity - 1 > 65535

\* readBools: quantity > 2000
TooManyBoolsNever(quantity) == FALSE
TooManyBools(quantity) == quantity > 2000

\* readBools, up to mc.executeRequest
BeginReadBools(a) ==
    IF a.quantity = 0 THEN Rejected
    ELSE IF TooManyBools(a.quantity) THEN Rejected
    ELSE IF ClientPastEnd(a.addr, a.quantity) THEN Rejected
    ELSE Sends([unitId |-> a.unitId,
                functionCode |-> IF a.di THEN fcReadDiscreteInputs ELSE fcReadCoils,
                payload |-> uint16ToBytes("BIG_ENDIAN", a.addr)
                                \o uint16ToBytes("BIG_ENDIAN", a.quantity)])

\* readRegisters, up to mc.executeRequest: the checks of the quantity set err
\* and go on (they do not return); err is then overwritten by the result of
\* mc.executeRequest
BeginReadRegisters(a) ==
    LET err1 == IF a.quantity = 0 THEN "ErrUnexpectedParameters" ELSE "nil"
        err2 == IF a.quantity > 123 THEN "ErrUnexpectedParameters" ELSE err1
    IN  IF a.regType \notin {"HOLDING_REGISTER", "INPUT_REGISTER"} THEN Rejected
        ELSE IF ClientPastEnd(a.addr, a.quantity) THEN Rejected
        ELSE [err |-> err2,
              req |-> [unitId |-> a.unitId,
                       functionCode |-> IF a.regType = "HOLDING_REGISTER"
                                           THEN fcReadHoldingRegisters
                                           ELSE fcReadInputRegisters,
                       payload |-> uint16ToBytes("BIG_ENDIAN", a.addr)
                                       \o uint16ToBytes("BIG_ENDIAN", a.quantity)]]

\* WriteCoil, up to mc.executeRequest
BeginWriteCoil(a) ==
    Sends([unitId |-> a.unitId, functionCode |-> fcWriteSingleCoil,
           payload |-> uint16ToBytes("BIG_ENDIAN", a.addr)
                           \o (IF a.value THEN <<255, 0>> ELSE <<0, 0>>)])

\* WriteCoils, up to mc.executeRequest: quantity = uint16(len(values))
BeginWriteCoils(a) ==
    LET values == WrittenCoils(a)
        quantity == Len(values) % 65536
        encodedValues == encodeBools(values)
    IN  IF quantity = 0 THEN Rejected
        ELSE IF quantity > 1968 THEN Rejected
        ELSE IF ClientPastEnd(a.addr, quantity) THEN Rejected
        ELSE Sends([unitId |-> a.unitId, functionCode |-> fcWriteMultipleCoils,
                    payload |-> uint16ToBytes("BIG_ENDIAN", a.addr)
                                    \o uint16ToBytes("BIG_ENDIAN", quantity)
                                    \o <<Len(encodedValues) % 256>>
                                    \o encodedValues])

BeginWriteRegisterAddrAsValue(a) ==
    Sends([unitId |-> a.unitId, functionCode |-> fcWriteSingleRegister,
           payload |-> uint16ToBytes(a.endianness, a.addr)
                           \o uint16ToBytes(a.endianness, a.value)])
\* WriteRegister, up to mc.executeRequest
BeginWriteRegister(a) ==
    Sends([unitId |-> a.unitId, functionCode |-> fcWriteSingleRegister,
           payload |-> uint16ToBytes("BIG_ENDIAN", a.addr)
                           \o uint16ToBytes(a.endianness, a.value)])

\* WriteRegisters and writeRegisters, up to mc.executeRequest:
\* payloadLength = uint16(len(values)), quantity = payloadLength / 2
BeginWriteRegisters(a) ==
    LET values == uint16sToBytes(a.endianness, RegisterValues(a.n))
        payloadLength == Len(values) % 65536
        quantity == payloadLength \div 2
    IN  IF quantity = 0 THEN Rejected
        ELSE IF quantity > 123 THEN Rejected
        ELSE IF ClientPastEnd(a.addr, quantity) THEN Rejected
        ELSE Sends([unitId |-> a.unitId, functionCode |-> fcWriteMultipleRegisters,
                    payload |-> uint16ToBytes("BIG_ENDIAN", a.addr)
                                    \o uint16ToBytes("BIG_ENDIAN", quantity)
                                    \o <<payloadLength % 256>>
                                    \o values])

\* WriteUint32 and writeRegisters, up to mc.executeRequest
BeginWriteUint32(a) ==
    LET values == uint32ToBytes(a.endianness, a.wordOrder, a.value)
        payloadLength == Len(values) % 65536
        quantity == payloadLength \div 2
    IN  IF quantity = 0 THEN Rejected
        ELSE IF quantity > 123 THEN Rejected
        ELSE IF ClientPastEnd(a.addr, quantity) THEN Rejected
        ELSE Sends([unitId |-> a.unitId, functionCode |-> fcWriteMultipleRegisters,
                    payload |-> uint16ToBytes("BIG_ENDIAN", a.addr)
                                    \o uint16ToBytes("BIG_ENDIAN", quantity)
                                    \o <<payloadLength % 256>>
                                    \o values])

Begin(a) ==
    CASE a.meth = "readBools" -> BeginReadBools(a)
      [] a.meth = "readRegisters" -> BeginReadRegisters(a)
      [] a.meth = "WriteCoil" -> BeginWriteCoil(a)
      [] a.meth = "WriteCoils" -> BeginWriteCoils(a)
      [] a.meth = "WriteRegister" -> BeginWriteRegister(a)
      [] a.meth = "WriteRegisters" -> BeginWriteRegisters(a)
      [] a.meth = "WriteUint32" -> BeginWriteUint32(a)

\* case res.functionCode == req.functionCode in readBools
VerifyReadBools(a, rs) ==
    LET expectedLen == 1 + ByteCount(a.quantity)
    IN  IF Len(rs.payload) # expectedLen THEN "ErrProtocolError"
        ELSE IF rs.payload[1] + 1 # expectedLen THEN "ErrProtocolError"
        ELSE "nil"

\* case res.functionCode == req.functionCode in readRegisters
VerifyReadRegisters(a, rs) ==
    IF Len(rs.payload) # 1 + 2 * a.quantity THEN "ErrProtocolError"
    ELSE IF rs.payload[1] # 2 * a.quantity THEN "ErrProtocolError"
    ELSE "nil"

\* case res.functionCode == req.functionCode in WriteCoil: with value false,
\* byte 3 of the response is not looked at
VerifyWriteCoil(a, rs) ==
    IF \/ Len(rs.payload) # 4
       \/ bytesToUint16("BIG_ENDIAN", SubSeq(rs.payload, 1, 2)) # a.addr
       \/ (a.value /\ rs.payload[3] # 255)
       \/ rs.payload[4] # 0
       THEN "ErrProtocolError"
       ELSE "nil"

\* case res.functionCode == req.functionCode in WriteCoils
VerifyWriteCoils(a, rs) ==
    IF \/ Len(rs.payload) # 4
       \/ bytesToUint16("BIG_ENDIAN", SubSeq(rs.payload, 1, 2)) # a.addr
       \/ bytesToUint16("BIG_ENDIAN", SubSeq(rs.payload, 3, 4)) # a.n % 65536
       THEN "ErrProtocolError"
       ELSE "nil"

\* case res.functionCode == req.functionCode in WriteRegister
VerifyWriteRegister(a, rs) ==
    IF \/ Len(rs.payload) # 4
       \/ bytesToUint16("BIG_ENDIAN", SubSeq(rs.payload, 1, 2)) # a.addr
       \/ bytesToUint16(a.endianness, SubSeq(rs.payload, 3, 4)) # a.value
       THEN "ErrProtocolError"
       ELSE "nil"

\* case res.functionCode == req.functionCode in writeRegisters
VerifyWriteRegisters(a, rs) ==
    IF \/ Len(rs.payload) # 4
       \/ bytesToUint16("BIG_ENDIAN", SubSeq(rs.payload, 1, 2)) # a.addr
       \/ bytesToUint16("BIG_ENDIAN", SubSeq(rs.payload, 3, 4))
              # ((2 * a.n) % 65536) \div 2
       THEN "ErrProtocolError"
       ELSE "nil"

\* case res.functionCode == req.functionCode in writeRegisters, called by
\* WriteUint32 with 4 bytes
VerifyWriteUint32(a, rs) ==
    IF \/ Len(rs.payload) # 4
       \/ bytesToUint16("BIG_ENDIAN", SubSeq(rs.payload, 1, 2)) # a.addr
       \/ bytesToUint16("BIG_ENDIAN", SubSeq(rs.payload, 3, 4)) # 2
       THEN "ErrProtocolError"
       ELSE "nil"

Verify(a, rs) ==
    CASE a.meth = "readBools" -> VerifyReadBools(a, rs)
      [] a.meth = "readRegisters" -> VerifyReadRegisters(a, rs)
      [] a.meth = "WriteCoil" -> VerifyWriteCoil(a, rs)
      [] a.meth = "WriteCoils" -> VerifyWriteCoils(a, rs)
      [] a.meth = "WriteRegister" -> VerifyWriteRegister(a, rs)
      [] a.meth = "WriteRegisters" -> VerifyWriteRegisters(a, rs)
      [] a.meth = "WriteUint32" -> VerifyWriteUint32(a, rs)

\* a request method from the return of mc.transport.ExecuteRequest with a
\* response to its own return
Finish(a, rq, rs) ==
    IF CheckUnitId(rq, rs) # "nil" THEN CheckUnitId(rq, rs)
    ELSE IF rs.functionCode = rq.functionCode THEN Verify(a, rs)
    ELSE IF rs.functionCode = OrHighBit(rq.functionCode) THEN ExceptionError(rs)
    ELSE "ErrProtocolError"

\* what the transport can hand back for a request: the unit ids
ResponseUnitIds(rq) == {rq.unitId, 2, 255}

\* the payload a server answers the request with
GoodPayloads(a, rq) ==
    CASE a.meth = "readBools" ->
            IF a.quantity <= 2000
               THEN {<<ByteCount(a.quantity)>> \o encodeBools(CoilValues(a.quantity))}
               ELSE {}
      [] a.meth = "readRegisters" ->
            IF 2 * a.quantity <= 255
               THEN {<<2 * a.quantity>>
                        \o uint16sToBytes("BIG_ENDIAN", RegisterValues(a.quantity))}
               ELSE {}
      [] OTHER -> {SubSeq(rq.payload, 1, 4)}

\* payloads that differ from the good one: another address, other bytes 3-4
\* (a value or a quantity), another byte count, another length
OtherPayloads(a, rq) ==
    UNION {
      IF a.meth \in {"readBools", "readRegisters"}
         THEN {<<(g[1] + 1) % 256>> \o Tail(g), Tail(g), g \o <<0>>}
         ELSE {uint16ToBytes("BIG_ENDIAN", (a.addr + 1) % 65536) \o SubSeq(g, 3, 4),
               SubSeq(g, 1, 3), g \o <<0>>}
              \cup {SubSeq(g, 1, 2) \o v :
                      v \in {<<0, 0>>, <<255, 0>>, <<255, 1>>, <<0, 1>>,
                             <<1, 0>>, <<g[4], g[3]>>}}
      : g \in GoodPayloads(a, rq)}

\* the payloads of negative responses
ExceptionPayloads ==
    {<<c>> : c \in {1, 2, 3, 4, 5, 6, 7, 8, 10, 11}} \cup {<<>>, <<1, 0>>}

Responses(a, rq) ==
    {[unitId |-> u, functionCode |-> rq.functionCode, payload |-> p] :
        u \in ResponseUnitIds(rq),
        p \in GoodPayloads(a, rq) \cup OtherPayloads(a, rq)}
    \cup
    {[unitId |-> u, functionCode |-> OrHighBit(rq.functionCode), payload |-> p] :
        u \in ResponseUnitIds(rq), p \in ExceptionPayloads}
    \cup
    {[unitId |-> u, functionCode |-> f, payload |-> p] :
        u \in ResponseUnitIds(rq),
        f \in {rq.functionCode + 1, OrHighBit(rq.functionCode) + 1},
        p \in GoodPayloads(a, rq) \cup {<<2>>}}

\* the errors of mc.transport.ExecuteRequest, after the mapping of timeouts
TransportErrors == {"ErrRequestTimedOut", "io error"}

CallInit ==
    /\ TimeIdle
    /\ ServerIdle
    /\ DispatchIdle
    /\ MbapIdle
    /\ ClientIdle
    /\ CallIdle
    /\ HistIdle
    /\ PureIdle

\* a request method is called: its checks, and the request it builds
CallMethod(a) ==
    /\ mpc = "idle"
    /\ LET b == Begin(a)
       IN  /\ margs' = a
           /\ mreq' = b.req
           /\ merr' = b.err
           /\ mres' = NoPdu
           /\ mpc' = IF b.req = NoPdu THEN "returned" ELSE "exchange"
    /\ UNCHANGED notCall

\* mc.executeRequest returns an error of the transport
TransportFails(e) ==
    /\ mpc = "exchange"
    /\ merr' = e
    /\ mpc' = "returned"
    /\ UNCHANGED <<margs, mreq, mres>>
    /\ UNCHANGED notCall

\* the transport returns a response: the checks of the method, to its return
TransportReturns ==
    /\ mpc = "exchange"
    /\ \E rs \in Responses(margs, mreq) :
          /\ mres' = rs
          /\ merr' = Finish(margs, mreq, rs)
    /\ mpc' = "returned"
    /\ UNCHANGED <<margs, mreq>>
    /\ UNCHANGED notCall

\* the caller takes the result
CallReturn ==
    /\ mpc = "returned"
    /\ mpc' = "idle"
    /\ margs' = NoArgs
    /\ mreq' = NoPdu
    /\ mres' = NoPdu
    /\ merr' = "nil"
    /\ UNCHANGED notCall

CallNext ==
    \/ \E a \in CallArgs : CallMethod(a)
    \/ \E e \in TransportErrors : TransportFails(e)
    \/ TransportReturns
    \/ CallReturn

SpecCall == CallInit /\ [][CallNext]_vars

(***************************************************************************)
(* tcpTransport, server side: ReadRequest and WriteResponse.               *)
(***************************************************************************)

\* the transaction ids and the PDUs of the frames a client sends
FrameTxnIds == {0, 4660, 65535}
FramePayloadLens == {0, 1, 4, 252, 253}
FramePdus ==
    {[unitId |-> u, functionCode |-> f, payload |-> [i \in 1..n |-> (i * 7) % 256] \o <<>>] :
        u \in {1, 255}, f \in {3, 131}, n \in FramePayloadLens}

\* headers that announce no PDU, or more than a frame may hold, and a frame
\* with a foreign protocol identifier, alone and with such a length
BadFrames ==
    {<<146, 24, 0, 0, 0, 0, 49>>,
     <<146, 24, 0, 0, 0, 1, 49>>,
     <<146, 24, 0, 0, 255, 255, 49>>,
     <<146, 24, 0, 1, 0, 4, 49, 6, 18, 52>>,
     <<146, 24, 0, 1, 0, 1, 49>>,
     <<146, 24, 0, 1, 0, 255, 49>>}

SentFrames ==
    {assembleMBAPFrame(t, q) : t \in FrameTxnIds, q \in FramePdus} \cup BadFrames

\* what follows the first frame on the stream: nothing, the start of another
\* frame, a whole frame, a frame with a foreign protocol identifier
Followers ==
    {<<>>, <<0, 1, 0>>,
     assembleMBAPFrame(7, [unitId |-> 1, functionCode |-> 1, payload |-> <<0, 5, 0, 4>>]),
     <<146, 24, 0, 1, 0, 2, 49, 6>>}

\* the responses the session writes
ResponsePdus ==
    {[unitId |-> 1, functionCode |-> 3, payload |-> <<2, 18, 52>>],
     [unitId |-> 1, functionCode |-> 131, payload |-> <<2>>]}

Min(a, b) == IF a < b THEN a ELSE b

\* the numbers of bytes a failed io.ReadFull has read, when it waited for
\* need bytes and the stream holds have: none, one, or all there could be
LostCounts(need, have) == {0, Min(1, Min(need - 1, have)), Min(need - 1, have)}

\* readMBAPFrame: the length announced by the header is refused
BadHeaderLengthOverFrame(bytesNeeded) ==
    \/ bytesNeeded > maxTCPFrameLength
    \/ bytesNeeded <= 0
BadHeaderLengthFromOne(bytesNeeded) ==
    \/ bytesNeeded + mbapHeaderLength > maxTCPFrameLength
    \/ bytesNeeded <= 1
BadHeaderLength(bytesNeeded) ==
    \/ bytesNeeded + mbapHeaderLength > maxTCPFrameLength
    \/ bytesNeeded <= 0

\* readMBAPFrame on the stream s: the results it may return, with what is
\* left of the stream. io.ReadFull fails when the deadline expires (or the
\* socket fails) before the bytes it waits for have arrived: the k bytes that
\* had arrived are read and lost
readMBAPFrame(s) ==
    {[p |-> NoPdu, txnId |-> 0, err |-> "i/o error", rest |-> SubSeq(s, k + 1, Len(s))] :
        k \in LostCounts(mbapHeaderLength, Len(s))}
    \cup
    (IF Len(s) < mbapHeaderLength THEN {}
     ELSE LET h == DecodeHeader(SubSeq(s, 1, mbapHeaderLength))
              body == SubSeq(s, mbapHeaderLength + 1, Len(s))
          IN  IF BadHeaderLength(h.bytesNeeded)
                 THEN {[p |-> NoPdu, txnId |-> h.txnId, err |-> "ErrProtocolError",
                        rest |-> body]}
                 ELSE {[p |-> NoPdu, txnId |-> h.txnId, err |-> "i/o error",
                        rest |-> SubSeq(body, k + 1, Len(body))] :
                          k \in LostCounts(h.bytesNeeded, Len(body))}
                      \cup
                      (IF Len(body) < h.bytesNeeded THEN {}
                       ELSE IF h.protocolId # 0
                          THEN {[p |-> NoPdu, txnId |-> h.txnId,
                                 err |-> "ErrUnknownProtocolId",
                                 rest |-> SubSeq(body, h.bytesNeeded + 1, Len(body))]}
                          ELSE {[p |-> [unitId |-> h.unitId, functionCode |-> body[1],
                                        payload |-> SubSeq(body, 2, h.bytesNeeded)],
                                 txnId |-> h.txnId, err |-> "nil",
                                 rest |-> SubSeq(body, h.bytesNeeded + 1, Len(body))]}))

MbapServerInit ==
    /\ TimeIdle
    /\ ServerIdle
    /\ DispatchIdle
    /\ ClientIdle
    /\ CallIdle
    /\ HistIdle
    /\ PureIdle
    /\ lastTxnId = 0
    /\ tpc = "idle"
    /\ hdr = NoHdr
    /\ \E f \in SentFrames, g \in Followers : rx = f \o g
    /\ sent = <<>>
    /\ ret = NoRet
    /\ nframes = 0
    /\ answered = {}
    /\ ncalls = 0
    /\ cur = 0

\* ReadRequest: if err != nil { return } comes before tt.lastTxnId = txnId
StoresTxnIdAlways(e) == TRUE
StoresTxnId(e) == e = "nil"

\* ReadRequest: SetDeadline may fail; a frame is read; its transaction id is
\* stored when it was read without error
ReadRequest ==
    /\ ncalls < MaxRequests
    /\ ncalls' = ncalls + 1
    /\ called' = [rx |-> rx, lastTxnId |-> lastTxnId]
    /\ \/ /\ ret' = [res |-> NoPdu, err |-> "i/o error"]
          /\ UNCHANGED <<rx, lastTxnId, goodTxn>>
       \/ \E o \in readMBAPFrame(rx) :
            /\ rx' = o.rest
            /\ ret' = [res |-> o.p, err |-> o.err]
            /\ lastTxnId' = IF StoresTxnId(o.err) THEN o.txnId ELSE lastTxnId
            /\ goodTxn' = IF o.err = "nil" THEN o.txnId ELSE goodTxn
    /\ UNCHANGED <<notHist, tpc, hdr, sent, nframes, answered, cur, wroteTxn>>

\* WriteResponse: the frame is written with tt.lastTxnId (a failed write
\* leaves nothing to look at)
WriteResponse(rs) ==
    /\ nframes < MaxFrames
    /\ nframes' = nframes + 1
    /\ sent' = Append(sent, assembleMBAPFrame(lastTxnId, rs))
    /\ wroteTxn' = Append(wroteTxn, [good |-> goodTxn,
                                     err |-> IF ret = NoRet THEN "none" ELSE ret.err])
    /\ UNCHANGED <<notHist, lastTxnId, tpc, hdr, rx, ret, answered, ncalls, cur,
                   called, goodTxn>>

MbapServerNext ==
    \/ ReadRequest
    \/ \E rs \in ResponsePdus : WriteResponse(rs)

SpecMbapServer == MbapServerInit /\ [][MbapServerNext]_vars

(***************************************************************************)
(* encoding.go: a value is turned into bytes and the bytes into a value.   *)
(***************************************************************************)

\* the 16-bit words the values are made of
EncWords == {0, 1, 4660, 65280, 65535}

\* math.Float32bits, math.Float64bits and their inverses: a float is held as
\* the record of its bit pattern
FloatFromBits(u) == [bits |-> u]
FloatBits(f) == f.bits

\* the values, by kind, each as the words of its bit pattern
EncValues(kind) ==
    CASE kind = "uint16" -> {<<a>> : a \in EncWords}
      [] kind = "uint32" -> {<<a, b>> : a \in {0, 4660, 65535}, b \in EncWords}
      [] kind = "float32" -> {<<a, b>> : a \in {16256, 32704, 65535}, b \in {0, 1}}
      [] kind = "uint64" ->
            {<<a, b, c, d>> : a \in {0, 4660}, b \in {0, 22136}, c \in {1, 65280},
                              d \in {2, 65535}}
      [] kind = "float64" ->
            {<<a, 0, b, c>> : a \in {16368, 32760}, b \in {0, 1}, c \in {0, 43981}}

EncKinds == {"uint16", "uint32", "float32", "uint64", "float64"}

EncInputs ==
    UNION {{[kind |-> k, endianness |-> e, wordOrder |-> o, values |-> <<v, w>>] :
               e \in Endiannesses, o \in WordOrders,
               v \in EncValues(k), w \in {CHOOSE x \in EncValues(k) : TRUE}} :
           k \in EncKinds}

\* float32ToBytes, float64ToBytes
float32ToBytes(endianness, wordOrder, in) ==
    uint32ToBytes(endianness, wordOrder, FloatBits(in))
float64ToBytes(endianness, wordOrder, in) ==
    uint64ToBytes(endianness, wordOrder, FloatBits(in))

\* bytesToFloat32s, bytesToFloat64s
bytesToFloat32s(endianness, wordOrder, in) ==
    LET u32s == bytesToUint32s(endianness, wordOrder, in)
    IN  [k \in 1..Len(u32s) |-> FloatFromBits(u32s[k])]
bytesToFloat64s(endianness, wordOrder, in) ==
    LET u64s == bytesToUint64s(endianness, wordOrder, in)
    IN  [k \in 1..Len(u64s) |-> FloatFromBits(u64s[k])]

\* the bytes of one value
ToBytes(a, v) ==
    CASE a.kind = "uint16" -> uint16ToBytes(a.endianness, v[1])
      [] a.kind = "uint32" -> uint32ToBytes(a.endianness, a.wordOrder, v)
      [] a.kind = "float32" ->
            float32ToBytes(a.endianness, a.wordOrder, FloatFromBits(v))
      [] a.kind = "uint64" -> uint64ToBytes(a.endianness, a.wordOrder, v)
      [] a.kind = "float64" ->
            float64ToBytes(a.endianness, a.wordOrder, FloatFromBits(v))

\* the loop of WriteUint32s (and of its siblings) over the values
EncodeValues(a) == ToBytes(a, a.values[1]) \o ToBytes(a, a.values[2])

\* the values of a payload, each as the words of its bit pattern
DecodeValues(a, in) ==
    CASE a.kind = "uint16" ->
            [k \in 1..(Len(in) \div 2) |-> <<bytesToUint16s(a.endianness, in)[k]>>]
      [] a.kind = "uint32" -> bytesToUint32s(a.endianness, a.wordOrder, in)
      [] a.kind = "float32" ->
            [k \in 1..(Len(in) \div 4) |->
                FloatBits(bytesToFloat32s(a.endianness, a.wordOrder, in)[k])]
      [] a.kind = "uint64" -> bytesToUint64s(a.endianness, a.wordOrder, in)
      [] a.kind = "float64" ->
            [k \in 1..(Len(in) \div 8) |->
                FloatBits(bytesToFloat64s(a.endianness, a.wordOrder, in)[k])]

EncodingInit ==
    /\ TimeIdle
    /\ ServerIdle
    /\ DispatchIdle
    /\ MbapIdle
    /\ ClientIdle
    /\ CallIdle
    /\ HistIdle
    /\ ppc = "start"
    /\ pin \in EncInputs
    /\ pmid = NoValue
    /\ pout = NoValue

Encode ==
    /\ ppc = "start"
    /\ pmid' = EncodeValues(pin)
    /\ ppc' = "encoded"
    /\ UNCHANGED <<notPure, pin, pout>>

Decode ==
    /\ ppc = "encoded"
    /\ pout' = DecodeValues(pin, pmid)
    /\ ppc' = "done"
    /\ UNCHANGED <<notPure, pin, pmid>>

EncodingNext == Encode \/ Decode

SpecEncoding == EncodingInit /\ [][EncodingNext]_vars

(***************************************************************************)
(* ModbusServer.extractRole.                                               *)
(***************************************************************************)

\* strings are held as their bytes; the role "" is the empty sequence
StringOf128 == [i \in 1..128 |-> 97] \o <<>>

\* the values of the extensions: well-formed UTF8Strings (fwgx, fg, the
\* empty string, a string with a two-byte character, one of 128 bytes with
\* a two-byte length), one followed by another byte, a PrintableString, a
\* constructed UTF8String, values that stop after the tag, in the length,
\* in the string, a string that is not UTF-8, an indefinite length, lengths
\* that are not minimal
ExtValues ==
    {<<12, 4, 102, 119, 103, 120>>,
     <<12, 2, 102, 103>>,
     <<12, 0>>,
     <<12, 2, 195, 169>>,
     <<12, 129, 128>> \o StringOf128,
     <<12, 2, 102, 103, 255>>,
     <<19, 4, 102, 119, 103, 120>>,
     <<44, 2, 102, 103>>,
     <<>>,
     <<12>>,
     <<12, 129>>,
     <<12, 4, 102, 119>>,
     <<12, 1, 255>>,
     <<12, 2, 195, 40>>,
     <<12, 128>>,
     <<12, 129, 2, 102, 103>>,
     <<12, 130, 0, 128>> \o StringOf128}

ExtIds == {"modbusRoleOID", "other"}

Extensions == [Id : ExtIds, Value : ExtValues]

Certificates ==
    UNION {[1..n -> Extensions] : n \in 0..MaxExtensions}

\* utf8.Valid, for strings of one-byte and two-byte characters: a byte is
\* a character, or the first byte of one and followed by a second byte, or the
\* second byte of one and preceded by a first byte
Utf8Valid(b) ==
    \A i \in 1..Len(b) :
        \/ b[i] < 128
        \/ (b[i] >= 194 /\ b[i] <= 223 /\ i < Len(b)
                /\ b[i + 1] >= 128 /\ b[i + 1] <= 191)
        \/ (b[i] >= 128 /\ b[i] <= 191 /\ i > 1
                /\ b[i - 1] >= 194 /\ b[i - 1] <= 223)

\* the length of a TLV and the number of bytes before its contents, for
\* lengths written on one to three bytes (asn1.parseTagAndLength); -1 when
\* the length is refused
TlvLength(v) ==
    IF Len(v) < 2 THEN [length |-> -1, offset |-> 0]
    ELSE IF v[2] < 128 THEN [length |-> v[2], offset |-> 2]
    ELSE IF v[2] = 128 THEN [length |-> -1, offset |-> 0]
    ELSE IF v[2] = 129
        THEN IF Len(v) < 3 \/ v[3] < 128 THEN [length |-> -1, offset |-> 0]
             ELSE [length |-> v[3], offset |-> 3]
    ELSE IF v[2] = 130
        THEN IF Len(v) < 4 \/ v[3] = 0 THEN [length |-> -1, offset |-> 0]
             ELSE [length |-> v[3] * 256 + v[4], offset |-> 4]
    ELSE [length |-> -1, offset |-> 0]

\* asn1.Unmarshal(ext.Value, &role) on a value whose tag is 0x0c: the string
\* of the first TLV; the bytes after it are returned as rest, which
\* extractRole drops
asn1Unmarshal(v) ==
    LET l == TlvLength(v) IN
    IF l.length = -1 THEN [err |-> "asn1: syntax error", role |-> <<>>]
    ELSE IF Len(v) < l.offset + l.length
        THEN [err |-> "asn1: syntax error", role |-> <<>>]
    ELSE IF ~Utf8Valid(SubSeq(v, l.offset + 1, l.offset + l.length))
        THEN [err |-> "asn1: invalid UTF-8 string", role |-> <<>>]
    ELSE [err |-> "nil", role |-> SubSeq(v, l.offset + 1, l.offset + l.length)]

\* extractRole: if found, on a second role extension
AlreadyFoundNever(found) == FALSE
AlreadyFound(found) == found

\* the loop of extractRole from extension i on, with its variables
RECURSIVE WalkExtensions(_, _, _, _, _)
WalkExtensions(exts, i, found, badCert, role) ==
    IF i > Len(exts) THEN [badCert |-> badCert, role |-> role]
    ELSE IF exts[i].Id # "modbusRoleOID"
        THEN WalkExtensions(exts, i + 1, found, badCert, role)
    ELSE IF AlreadyFound(found) THEN [badCert |-> TRUE, role |-> role]
    ELSE IF Len(exts[i].Value) < 2 \/ exts[i].Value[1] # 12
        THEN [badCert |-> TRUE, role |-> role]
    ELSE LET u == asn1Unmarshal(exts[i].Value) IN
         IF u.err # "nil" THEN [badCert |-> TRUE, role |-> role]
         ELSE WalkExtensions(exts, i + 1, TRUE, badCert, u.role)

extractRole(cert) ==
    LET w == WalkExtensions(cert.Extensions, 1, FALSE, FALSE, <<>>)
    IN  IF w.badCert THEN <<>> ELSE w.role

RoleInit ==
    /\ TimeIdle
    /\ ServerIdle
    /\ DispatchIdle
    /\ MbapIdle
    /\ ClientIdle
    /\ CallIdle
    /\ HistIdle
    /\ ppc = "start"
    /\ \E c \in Certificates : pin = [Extensions |-> c]
    /\ pmid = NoValue
    /\ pout = NoValue

ExtractRole ==
    /\ ppc = "start"
    /\ pout' = extractRole(pin)
    /\ ppc' = "done"
    /\ UNCHANGED <<notPure, pin, pmid>>

RoleNext == ExtractRole

SpecRole == RoleInit /\ [][RoleNext]_vars

(***************************************************************************)
(* ModbusClient: the request methods, SetEncoding and the reads and writes *)
(* of mc.endianness and mc.wordOrder.                                      *)
(***************************************************************************)

\* SetEncoding and three request methods: WriteRegister encodes and verifies
\* inside its locked body, WriteRegisters encodes before it calls
\* writeRegisters, ReadUint32s decodes after readRegisters has returned
EncodingMethods == {"SetEncoding", "WriteRegister", "WriteRegisters", "ReadUint32s"}

\* a read of mc.endianness and mc.wordOrder by caller c
ReadEncoding(c) ==
    [caller |-> c, holder |-> lock, changed |-> encoding # entered[c]]

\* the method returns to its caller
Returned(c) ==
    /\ cpc' = [cpc EXCEPT ![c] = "idle"]
    /\ cmeth' = [cmeth EXCEPT ![c] = "none"]
    /\ entered' = [entered EXCEPT ![c] = NoAccess]

\* a goroutine calls method m: WriteRegisters starts with its encoding loop,
\* the others reach mc.lock.Lock()
Enter(c, m) ==
    /\ cpc[c] = "idle"
    /\ cpc' = [cpc EXCEPT ![c] = IF m = "WriteRegisters" THEN "encode" ELSE "wait"]
    /\ cmeth' = [cmeth EXCEPT ![c] = m]
    /\ entered' = [entered EXCEPT ![c] = encoding]
    /\ UNCHANGED <<notClient, lock, encoding, access>>

\* WriteRegisters: uint16ToBytes(mc.endianness, value) for each value, then
\* the call of mc.writeRegisters, which reaches mc.lock.Lock()
EncodeUnlocked(c) ==
    /\ cpc[c] = "encode"
    /\ access' = ReadEncoding(c)
    /\ cpc' = [cpc EXCEPT ![c] = "wait"]
    /\ UNCHANGED <<notClient, lock, cmeth, encoding, entered>>

\* SetEncoding: a parameter is no known value, ErrUnexpectedParameters
RejectEncoding(c) ==
    /\ cpc[c] = "locked"
    /\ cmeth[c] = "SetEncoding"
    /\ lock' = Unlock(lock, c)
    /\ Returned(c)
    /\ UNCHANGED <<notClient, encoding, access>>

\* SetEncoding: mc.endianness = endianness
SetEndianness(c) ==
    /\ cpc[c] = "locked"
    /\ cmeth[c] = "SetEncoding"
    /\ \E e \in Endiannesses : encoding' = [encoding EXCEPT !.endianness = e]
    /\ cpc' = [cpc EXCEPT ![c] = "set"]
    /\ UNCHANGED <<notClient, lock, cmeth, entered, access>>

\* SetEncoding: mc.wordOrder = wordOrder, and the deferred Unlock()
SetWordOrder(c) ==
    /\ cpc[c] = "set"
    /\ \E w \in WordOrders : encoding' = [encoding EXCEPT !.wordOrder = w]
    /\ lock' = Unlock(lock, c)
    /\ Returned(c)
    /\ UNCHANGED <<notClient, access>>

\* the locked body up to mc.executeRequest: WriteRegister encodes the value
\* with mc.endianness, writeRegisters and readRegisters build the request
\* from the bytes and numbers they were given
BuildRequest(c) ==
    /\ cpc[c] = "locked"
    /\ cmeth[c] # "SetEncoding"
    /\ access' = IF cmeth[c] = "WriteRegister" THEN ReadEncoding(c) ELSE access
    /\ cpc' = [cpc EXCEPT ![c] = "exchange"]
    /\ UNCHANGED <<notClient, lock, cmeth, encoding, entered>>

\* mc.executeRequest returns an error: the method returns it
ExchangeFails(c) ==
    /\ cpc[c] = "exchange"
    /\ lock' = Unlock(lock, c)
    /\ Returned(c)
    /\ UNCHANGED <<notClient, encoding, access>>

\* mc.executeRequest returns a response: WriteRegister compares the echoed
\* value, decoded with mc.endianness; the locked body returns, and
\* ReadUint32s goes on to decode the bytes readRegisters returned
ExchangeReturns(c) ==
    /\ cpc[c] = "exchange"
    /\ access' = IF cmeth[c] = "WriteRegister" THEN ReadEncoding(c) ELSE access
    /\ lock' = Unlock(lock, c)
    /\ IF cmeth[c] = "ReadUint32s"
          THEN /\ cpc' = [cpc EXCEPT ![c] = "decode"]
               /\ UNCHANGED <<cmeth, entered>>
          ELSE Returned(c)
    /\ UNCHANGED <<notClient, encoding>>

\* ReadUint32s: bytesToUint32s(mc.endianness, mc.wordOrder, mbPayload)
DecodeUnlocked(c) ==
    /\ cpc[c] = "decode"
    /\ access' = ReadEncoding(c)
    /\ Returned(c)
    /\ UNCHANGED <<notClient, lock, encoding>>

ClientEncodingInit ==
    /\ TimeIdle
    /\ ServerIdle
    /\ DispatchIdle
    /\ MbapIdle
    /\ CallIdle
    /\ HistIdle
    /\ PureIdle
    /\ ClientIdle

ClientEncodingNext ==
    \/ \E c \in Callers, m \in EncodingMethods : Enter(c, m)
    \/ \E c \in Callers : EncodeUnlocked(c)
    \/ \E c \in Callers : Lock(c)
    \/ \E c \in Callers : RejectEncoding(c)
    \/ \E c \in Callers : SetEndianness(c)
    \/ \E c \in Callers : SetWordOrder(c)
    \/ \E c \in Callers : BuildRequest(c)
    \/ \E c \in Callers : ExchangeFails(c)
    \/ \E c \in Callers : ExchangeReturns(c)
    \/ \E c \in Callers : DecodeUnlocked(c)

SpecClientEncoding == ClientEncodingInit /\ [][ClientEncodingNext]_vars

(***************************************************************************)
(* A client and a server joined by an MBAP connection, the server's        *)
(* handler storing coils: WriteCoils followed by ReadCoils.                *)
(***************************************************************************)

\* the handler's coil store: coils [10]bool
NumCoils == 10

\* the handler of the server's tests: HandleCoils on the store coils, for
\* the call c handleTransport makes
HandleCoils(coils, c) ==
    IF c.unitId # 9
       THEN [err |-> "ErrIllegalFunction", res |-> <<>>, coils |-> coils]
    ELSE IF (c.addr + c.quantity) % 65536 > NumCoils
       THEN [err |-> "ErrIllegalDataAddress", res |-> <<>>, coils |-> coils]
    ELSE LET stored == [i \in 1..NumCoils |->
                           IF c.isWrite /\ i > c.addr /\ i <= c.addr + c.quantity
                              THEN c.args[i - c.addr] ELSE coils[i]]
         IN  [err |-> "nil",
              res |-> [i \in 1..c.quantity |-> stored[c.addr + i]],
              coils |-> stored]

\* handleTransport for the request r, with the handler above: the response
\* written (none when the transport is closed instead) and the coil store
ServeCoils(coils, r) ==
    LET probe == Serve(r, [err |-> "nil", n |-> 0])
        h == HandleCoils(coils, probe.call)
        out == IF probe.call = NoCall THEN probe
               ELSE Serve(r, [err |-> h.err, n |-> Len(h.res), bools |-> h.res])
        e == IF out.err = "nil" /\ out.res = NoPdu
                THEN "ErrServerDeviceFailure" ELSE out.err
    IN  [res |-> IF ClosesLink(e) THEN NoPdu
                 ELSE IF e # "nil"
                 THEN ExceptionPdu(r, mapErrorToExceptionCode(e))
                 ELSE out.res,
         coils |-> IF probe.call = NoCall THEN coils ELSE h.coils]

\* what a request method of the client returns
CallFailed(e, coils) == [err |-> e, values |-> <<>>, coils |-> coils]

\* the client reads the response frame and the method verifies it: readBools
\* decodes the bits that follow the byte count
ClientReceives(a, rq, txnId, frame, coils) ==
    {IF in.err # "nil" THEN CallFailed(in.err, coils)
     ELSE IF Skips(txnId, in.txnId) THEN CallFailed("i/o error", coils)
     ELSE IF Finish(a, rq, in.p) # "nil" THEN CallFailed(Finish(a, rq, in.p), coils)
     ELSE [err |-> "nil",
           values |-> IF a.meth = "readBools"
                         THEN decodeBools(a.quantity, Tail(in.p.payload))
                         ELSE <<>>,
           coils |-> coils] :
        in \in readMBAPFrame(frame)}

\* the server reads the request frame, serves it and writes its response;
\* when it reads no request or closes the transport the client's read fails
ServerAnswers(a, rq, txnId, frame, coils) ==
    UNION {
        IF in.err # "nil" THEN {CallFailed("i/o error", coils)}
        ELSE LET out == ServeCoils(coils, in.p) IN
             IF out.res = NoPdu THEN {CallFailed("i/o error", out.coils)}
             ELSE ClientReceives(a, rq, txnId,
                                 assembleMBAPFrame(in.txnId, out.res), out.coils)
        : in \in readMBAPFrame(frame)}

\* one call of a request method of the client, with transaction id txnId,
\* against the server whose handler holds coils: what the method may return
\* and the coils the handler holds afterwards
CallServer(a, txnId, coils) ==
    LET b == Begin(a) IN
    IF b.req = NoPdu THEN {CallFailed(b.err, coils)}
    ELSE ServerAnswers(a, b.req, txnId, assembleMBAPFrame(txnId, b.req), coils)

\* the bits written: every pattern of up to five bits, and patterns that
\* fill one byte and go beyond it
CoilPatterns ==
    UNION {[1..n -> BOOLEAN] : n \in 1..5}
    \cup {[i \in 1..n |-> i % k = 1] \o <<>> : n \in 8..10, k \in 2..3}
CoilUnitIds == {9, 1}
CoilAddrs == {0, 5}
CoilStores == {[i \in 1..NumCoils |-> FALSE], [i \in 1..NumCoils |-> i % 2 = 1]}

CoilsInit ==
    /\ TimeIdle
    /\ ServerIdle
    /\ DispatchIdle
    /\ MbapIdle
    /\ ClientIdle
    /\ CallIdle
    /\ HistIdle
    /\ ppc = "start"
    /\ \E u \in CoilUnitIds, addr \in CoilAddrs, bits \in CoilPatterns,
          coils \in CoilStores :
           pin = [unitId |-> u, addr |-> addr, bits |-> bits, coils |-> coils]
    /\ pmid = NoValue
    /\ pout = NoValue

\* client.WriteCoils(addr, bits)
CoilsWrite ==
    /\ ppc = "start"
    /\ \E r \in CallServer([meth |-> "WriteCoils", unitId |-> pin.unitId,
                            addr |-> pin.addr, n |-> Len(pin.bits),
                            values |-> pin.bits], 1, pin.coils) :
           pmid' = r
    /\ ppc' = "written"
    /\ UNCHANGED <<notPure, pin, pout>>

\* client.ReadCoils(addr, len(bits))
CoilsRead ==
    /\ ppc = "written"
    /\ \E r \in CallServer([meth |-> "readBools", unitId |-> pin.unitId,
                            addr |-> pin.addr, quantity |-> Len(pin.bits),
                            di |-> FALSE], 2, pmid.coils) :
           pout' = r
    /\ ppc' = "done"
    /\ UNCHANGED <<notPure, pin, pmid>>

CoilsNext == CoilsWrite \/ CoilsRead

SpecCoils == CoilsInit /\ [][CoilsNext]_vars

(***************************************************************************)
(* The RTU transport: CRC, frame assembly and frame parsing.               *)
(***************************************************************************)

maxRTUFrameLength == 256

\* bitwise exclusive or of two naturals
RECURSIVE Xor(_, _)
Xor(a, b) ==
    IF a = 0 THEN b
    ELSE IF b = 0 THEN a
    ELSE ((a + b) % 2) + 2 * Xor(a \div 2, b \div 2)

\* one entry of the CRC table: the byte run through eight shifts of the
\* reflected polynomial 0xA001
RECURSIVE crcShift(_, _)
crcShift(reg, n) ==
    IF n = 0 THEN reg
    ELSE crcShift(IF reg % 2 = 1 THEN Xor(reg \div 2, 40961) ELSE reg \div 2,
                  n - 1)

crcTable == [i \in 1..256 |-> crcShift(i - 1, 8)] \o <<>>

\* crc.init(): the register starts at 0xFFFF
crcInit == 65535

\* crc.add() of the bytes data[lo..hi], byte-wise through the table
RECURSIVE crcAdd(_, _, _, _)
crcAdd(crc, data, lo, hi) ==
    IF lo > hi THEN crc
    ELSE IF lo = hi
    THEN Xor(crc \div 256, crcTable[Xor(crc % 256, data[lo]) + 1])
    ELSE LET mid == (lo + hi) \div 2
         IN  CHOOSE reg \in {crcAdd(left, data, mid + 1, hi) :
                                left \in {crcAdd(crc, data, lo, mid)}} : TRUE

\* crc.value(): the register, low byte first
crcValue(crc) == <<crc % 256, crc \div 256>>

\* crc.isEqual(low, high)
crcIsEqual(crc, low, high) == crc = high * 256 + low

\* assembleRTUFrame(p): unit id, function code, payload, CRC
assembleRTUFrame(p) ==
    LET adu == <<p.unitId, p.functionCode>> \o p.payload
    IN  adu \o crcValue(crcAdd(crcInit, adu, 1, Len(adu)))

expectedResponseLenthMaskAsWrite(responseCode, responseLength) ==
    IF responseCode \in {fcReadHoldingRegisters, fcReadInputRegisters,
                         fcReadCoils, fcReadDiscreteInputs}
    THEN [byteCount |-> responseLength, err |-> "nil"]
    ELSE IF responseCode \in {fcWriteSingleRegister, fcWriteMultipleRegisters,
                              fcWriteSingleCoil, fcWriteMultipleCoils,
                              fcMaskWriteRegister}
    THEN [byteCount |-> 3, err |-> "nil"]
    ELSE IF responseCode \in {fc + 128 : fc \in
                 {fcReadHoldingRegisters, fcReadInputRegisters, fcReadCoils,
                  fcReadDiscreteInputs, fcWriteSingleRegister,
                  fcWriteMultipleRegisters, fcWriteSingleCoil,
                  fcWriteMultipleCoils, fcMaskWriteRegister}}
    THEN [byteCount |-> 0, err |-> "nil"]
    ELSE [byteCount |-> 0, err |-> "ErrProtocolError"]

\* expectedResponseLenth(responseCode, responseLength): the number of bytes
\* that follow the first three of a response, CRC excluded
expectedResponseLenth(responseCode, responseLength) ==
    IF responseCode \in {fcReadHoldingRegisters, fcReadInputRegisters,
                         fcReadCoils, fcReadDiscreteInputs}
    THEN [byteCount |-> responseLength, err |-> "nil"]
    ELSE IF responseCode \in {fcWriteSingleRegister, fcWriteMultipleRegisters,
                              fcWriteSingleCoil, fcWriteMultipleCoils}
    THEN [byteCount |-> 3, err |-> "nil"]
    ELSE IF responseCode = fcMaskWriteRegister
    THEN [byteCount |-> 5, err |-> "nil"]
    ELSE IF responseCode \in {fc + 128 : fc \in
                 {fcReadHoldingRegisters, fcReadInputRegisters, fcReadCoils,
                  fcReadDiscreteInputs, fcWriteSingleRegister,
                  fcWriteMultipleRegisters, fcWriteSingleCoil,
                  fcWriteMultipleCoils, fcMaskWriteRegister}}
    THEN [byteCount |-> 0, err |-> "nil"]
    ELSE [byteCount |-> 0, err |-> "ErrProtocolError"]

\* how a link ends once its bytes are read: it is closed, or it stays silent
\* until the deadline
LinkEnds == {"EOF", "ErrRequestTimedOut"}

\* readRTUFrame() on a link that holds the bytes s and then ends with
\* linkEnd: the decoded response, the error and the bytes left on the link
readRTUFrame(s, linkEnd) ==
    IF Len(s) = 0
    THEN [res |-> NoPdu, err |-> linkEnd, rest |-> s]
    ELSE IF Len(s) < 3
    THEN [res |-> NoPdu, err |-> "ErrShortFrame", rest |-> <<>>]
    ELSE
    LET expected == expectedResponseLenth(s[2], s[3])
        bytesNeeded == expected.byteCount + 2
        rest == SubSeq(s, 4, Len(s))
        end == 3 + bytesNeeded
    IN  IF expected.err # "nil"
        THEN [res |-> NoPdu, err |-> expected.err, rest |-> rest]
        ELSE IF 3 + bytesNeeded > maxRTUFrameLength
        THEN [res |-> NoPdu, err |-> "ErrProtocolError", rest |-> rest]
        ELSE IF Len(rest) < bytesNeeded
                /\ (Len(rest) = 0 \/ linkEnd # "EOF")
        THEN [res |-> NoPdu, err |-> linkEnd, rest |-> <<>>]
        ELSE IF Len(rest) < bytesNeeded
        THEN [res |-> NoPdu, err |-> "ErrShortFrame", rest |-> <<>>]
        ELSE IF ~crcIsEqual(crcAdd(crcInit, s, 1, end - 2), s[end - 1], s[end])
        THEN [res |-> NoPdu, err |-> "ErrBadCRC",
              rest |-> SubSeq(s, end + 1, Len(s))]
        ELSE [res |-> [unitId |-> s[1], functionCode |-> s[2],
                       payload |-> SubSeq(s, 3, end - 2)],
              err |-> "nil",
              rest |-> SubSeq(s, end + 1, Len(s))]

\* the responses a device sends: reads with their byte count, the echoes of
\* the writes, the mask write echo and the exceptions
RtuUnitIds == {1, 247}
RtuByteCounts == {0, 1, 2, 250, 251, 252, 255}
RtuFills == {0, 37}
RtuData(n, fill) == [i \in 1..n |-> (i * fill + fill) % 256] \o <<>>
RtuEchoes == {<<0, 2, 6, 5>>, <<255, 255, 255, 0>>}

RtuResponses ==
    {[unitId |-> u, functionCode |-> fc, payload |-> <<n>> \o RtuData(n, f)] :
        u \in RtuUnitIds,
        fc \in {fcReadCoils, fcReadDiscreteInputs, fcReadHoldingRegisters,
                fcReadInputRegisters},
        n \in RtuByteCounts, f \in RtuFills}
    \cup {[unitId |-> u, functionCode |-> fc, payload |-> e] :
        u \in RtuUnitIds,
        fc \in {fcWriteSingleCoil, fcWriteSingleRegister,
                fcWriteMultipleCoils, fcWriteMultipleRegisters},
        e \in RtuEchoes}
    \cup {[unitId |-> u, functionCode |-> fcMaskWriteRegister,
           payload |-> <<0, 4, 0, 242, 0, 37>>] : u \in RtuUnitIds}
    \cup {[unitId |-> u, functionCode |-> fc + 128, payload |-> <<ex>>] :
        u \in RtuUnitIds,
        fc \in {fcReadCoils, fcReadHoldingRegisters, fcWriteSingleCoil,
                fcWriteMultipleRegisters, fcMaskWriteRegister},
        ex \in {exIllegalFunction, exGWTargetFailedToRespond}}

\* what line noise does to a frame: one byte altered, or the tail lost
RtuDamaged(frame) ==
    {[frame EXCEPT ![k] = (@ + 1) % 256] : k \in {1, 3, Len(frame)}}
    \cup {SubSeq(frame, 1, n) : n \in {0, 2, 3, Len(frame) - 1}}

RtuInit ==
    /\ TimeIdle
    /\ ServerIdle
    /\ DispatchIdle
    /\ MbapIdle
    /\ ClientIdle
    /\ CallIdle
    /\ HistIdle
    /\ ppc = "start"
    /\ \E p \in RtuResponses : pin = p
    /\ pmid = NoValue
    /\ pout = NoValue

\* the device writes its response: WriteResponse() sends assembleRTUFrame(res)
RtuWriteResponse ==
    /\ ppc = "start"
    /\ pmid' = assembleRTUFrame(pin)
    /\ ppc' = "sent"
    /\ UNCHANGED <<notPure, pin, pout>>

\* the line alters the frame on its way
RtuNoise ==
    /\ ppc = "sent"
    /\ \E f \in RtuDamaged(pmid) : pmid' = f
    /\ ppc' = "damaged"
    /\ UNCHANGED <<notPure, pin, pout>>

\* the client reads the response with readRTUFrame()
RtuReadResponse ==
    /\ ppc \in {"sent", "damaged"}
    /\ \E linkEnd \in LinkEnds :
           pout' = [was |-> ppc, read |-> readRTUFrame(pmid, linkEnd)]
    /\ ppc' = "done"
    /\ UNCHANGED <<notPure, pin, pmid>>

RtuNext == RtuWriteResponse \/ RtuNoise \/ RtuReadResponse

SpecRTU == RtuInit /\ [][RtuNext]_vars

(***************************************************************************)
(* udpSockWrapper: datagrams read as a stream of bytes.                    *)
(***************************************************************************)

MaxDatagrams == 2

\* the bytes a datagram of n bytes carries
DatagramOf(n, first) == [i \in 1..n |-> (first + i) % 256] \o <<>>

\* the datagrams the peer may send: empty, short, as long as usw.rxbuf and
\* one byte longer
Datagrams ==
    {<<>>, <<1>>, <<2, 3, 4>>, DatagramOf(maxTCPFrameLength, 9),
     DatagramOf(maxTCPFrameLength + 1, 99)}

\* the lengths of the slices the callers hand to Read: empty, shorter than
\* a datagram, one byte short of the longest, longer than any
ReadSizes == {0, 2, maxTCPFrameLength - 1, maxTCPFrameLength + 40}

\* copy(dst, src) on slices of one array, dst starting at its first element:
\* the n - copied bytes from position copied are moved to the front
MoveLeftoverNot(rxbuf, copied, n) == rxbuf
MoveLeftover(rxbuf, copied, n) ==
    [i \in 1..Len(rxbuf) |->
        IF i <= n - copied THEN rxbuf[copied + i] ELSE rxbuf[i]] \o <<>>

\* usw.sock.Read(usw.rxbuf): the datagram is stored from the start of the
\* buffer, what does not fit is dropped
StoreDatagram(rxbuf, d) ==
    [i \in 1..Len(rxbuf) |-> IF i <= Len(d) THEN d[i] ELSE rxbuf[i]] \o <<>>

\* Read(buf) with len(buf) = size and a datagram waiting when there is none
\* left over: the wrapper afterwards and the bytes put in buf
UdpRead(usw, size, d) ==
    LET fresh == usw.leftoverCount = 0
        rxbuf == IF fresh THEN StoreDatagram(usw.rxbuf, d) ELSE usw.rxbuf
        n == IF fresh THEN Min(Len(d), Len(usw.rxbuf)) ELSE usw.leftoverCount
        copied == Min(size, n)
    IN  [usw |-> [rxbuf |-> IF n > copied THEN MoveLeftover(rxbuf, copied, n)
                            ELSE rxbuf,
                  leftoverCount |-> n - copied],
         buf |-> SubSeq(rxbuf, 1, copied)]

UdpInit ==
    /\ TimeIdle
    /\ ServerIdle
    /\ DispatchIdle
    /\ MbapIdle
    /\ ClientIdle
    /\ CallIdle
    /\ HistIdle
    /\ ppc = "start"
    /\ \E n \in 1..MaxDatagrams : pin \in [1..n -> Datagrams]
    /\ pmid = [rxbuf |-> [i \in 1..maxTCPFrameLength |-> 0] \o <<>>,
               leftoverCount |-> 0, received |-> 0]
    /\ pout = <<>>

\* Read(buf) returns bytes: left over ones, or those of the next datagram
UdpReadReturns ==
    /\ ppc = "start"
    /\ \E size \in ReadSizes :
         LET fresh == pmid.leftoverCount = 0 IN
         /\ fresh => pmid.received < Len(pin)
         /\ LET r == UdpRead([rxbuf |-> pmid.rxbuf,
                              leftoverCount |-> pmid.leftoverCount], size,
                             IF fresh THEN pin[pmid.received + 1] ELSE <<>>)
            IN  /\ pmid' = [rxbuf |-> r.usw.rxbuf,
                            leftoverCount |-> r.usw.leftoverCount,
                            received |-> pmid.received + (IF fresh THEN 1 ELSE 0)]
                /\ pout' = pout \o r.buf
    /\ UNCHANGED <<notPure, ppc, pin>>

\* Read(buf) with nothing left over and no datagram before the deadline:
\* usw.sock.Read fails and Read returns its error
UdpReadFails ==
    /\ ppc = "start"
    /\ pmid.leftoverCount = 0
    /\ pmid.received = Len(pin)
    /\ ppc' = "done"
    /\ UNCHANGED <<notPure, pin, pmid, pout>>

UdpNext == UdpReadReturns \/ UdpReadFails

SpecUDP == UdpInit /\ [][UdpNext]_vars

(***************************************************************************)
(* rtuTransport.ExecuteRequest: the timing of the line, the response and   *)
(* the resynchronisation, with a device that may answer late.              *)
(***************************************************************************)

\* serialCharTime(speed), in milliseconds at 5500 bauds, and the inter-frame
\* delay of the rates below 19200 bauds
t1 == 2
t35 == (t1 * 35) \div 10

\* the requests of the callers: the holding registers 0 and 1 of unit 1
RtRequests ==
    {[unitId |-> 1, functionCode |-> fcReadHoldingRegisters,
      payload |-> <<0, a, 0, 1>>] : a \in {0, 1}}

\* what the device puts on the line for a request: the register, the frame
\* with a byte altered by the line, its first two bytes, or nothing
RtAnswer(r) ==
    assembleRTUFrame([unitId |-> r.unitId, functionCode |-> r.functionCode,
                      payload |-> <<2, 17, 34 + r.payload[2]>>])
RtAnswers(r) ==
    {RtAnswer(r), <<>>, SubSeq(RtAnswer(r), 1, 2),
     [RtAnswer(r) EXCEPT ![2] = 99], [RtAnswer(r) EXCEPT ![5] = 0]}

\* the errors after which the transport waits and flushes the link
NeedsResyncNotShort(e) == e \in {"ErrBadCRC", "ErrProtocolError"}
NeedsResync(e) == e \in {"ErrBadCRC", "ErrProtocolError", "ErrShortFrame"}

\* the sleep before a frame is written, idle being the time since
\* rt.lastActivity: time.Since(rt.lastActivity.Add(rt.t35)) when negative
InterFrameSleepNone(idle) == 0
InterFrameSleep(idle) == IF idle - t35 < 0 THEN (idle - t35) * (-1) ELSE 0

\* time.Sleep(d) returns at once when d is not positive; the gaps longer
\* than t3.5 are all alike
AfterSleep(idle, d) == Min(t35, IF d > 0 THEN idle + d ELSE idle)

\* the outcome of a call before it has done anything
RtFresh ==
    [res |-> NoPdu, err |-> "nil", waited |-> 0, gap |-> -1, used |-> {},
     resync |-> <<>>]

RtExecInit ==
    /\ TimeIdle
    /\ ServerIdle
    /\ DispatchIdle
    /\ MbapIdle
    /\ ClientIdle
    /\ CallIdle
    /\ HistIdle
    /\ ppc = "ready"
    /\ pin = [rx |-> <<>>, age |-> <<>>, due |-> <<>>]
    /\ pmid = [idle |-> t35, req |-> NoPdu]
    /\ pout = RtFresh

\* ExecuteRequest(req) begins: the deadline is set on the link
RtSetDeadline ==
    /\ ppc = "ready"
    /\ \E r \in RtRequests : pmid' = [pmid EXCEPT !.req = r]
    /\ pout' = RtFresh
    /\ ppc' = "wait"
    /\ UNCHANGED <<notPure, pin>>

\* rt.link.SetDeadline fails: the call returns its error
RtSetDeadlineFails ==
    /\ ppc = "ready"
    /\ pout' = [RtFresh EXCEPT !.err = "link error"]
    /\ UNCHANGED <<notPure, ppc, pin, pmid>>

\* t3.5 is let to expire since rt.lastActivity
RtInterFrameWait ==
    /\ ppc = "wait"
    /\ pmid' = [pmid EXCEPT !.idle = AfterSleep(@, InterFrameSleep(@))]
    /\ pout' = [pout EXCEPT !.waited = InterFrameSleep(pmid.idle)]
    /\ ppc' = "write"
    /\ UNCHANGED <<notPure, pin>>

\* ts = time.Now(); rt.link.Write(frame) takes the n bytes of the frame;
\* rt.lastActivity = ts + n * t1.  The bytes the link holds were received
\* earlier than this frame was written; the device answers the request
\* unless it is still sending.
RtWrite ==
    /\ ppc = "write"
    /\ LET n == Len(assembleRTUFrame(pmid.req)) IN
       /\ pout' = [pout EXCEPT !.gap = pmid.idle]
       /\ pmid' = [pmid EXCEPT !.idle = 0 - n * t1]
    /\ \E f \in RtAnswers(pmid.req) :
         pin' = [rx |-> pin.rx,
                 age |-> [i \in 1..Len(pin.age) |-> "earlier"] \o <<>>,
                 due |-> IF pin.due = <<>> THEN f ELSE pin.due]
    /\ ppc' = "sent"
    /\ UNCHANGED <<notPure>>

\* rt.link.Write fails: the call returns its error, rt.lastActivity is kept
RtWriteFails ==
    /\ ppc = "write"
    /\ pout' = [pout EXCEPT !.err = "link error"]
    /\ ppc' = "ready"
    /\ UNCHANGED <<notPure, pin, pmid>>

\* the sleep until rt.lastActivity + t3.5
RtTurnaround ==
    /\ ppc = "sent"
    /\ pmid' = [pmid EXCEPT !.idle = AfterSleep(@, t35 - @)]
    /\ ppc' = "read"
    /\ UNCHANGED <<notPure, pin, pout>>

\* rt.readRTUFrame() with the bytes that reached the link before the
\* deadline, or before the link was closed
RtRead ==
    /\ ppc = "read"
    /\ \E linkEnd \in LinkEnds :
         LET r == readRTUFrame(pin.rx, linkEnd)
             taken == Len(pin.rx) - Len(r.rest)
         IN  /\ pout' = [pout EXCEPT !.res = r.res, !.err = r.err,
                            !.used = {pin.age[i] : i \in 1..taken}]
             /\ pin' = [pin EXCEPT !.rx = r.rest,
                           !.age = SubSeq(pin.age, taken + 1, Len(pin.age))]
             /\ ppc' = IF NeedsResync(r.err) THEN "resync" ELSE "mark"
    /\ UNCHANGED <<notPure, pmid>>

\* time.Sleep(maxRTUFrameLength * t1)
RtResyncSleep ==
    /\ ppc = "resync"
    /\ pmid' = [pmid EXCEPT !.idle = AfterSleep(@, maxRTUFrameLength * t1)]
    /\ pout' = [pout EXCEPT !.resync = Append(@, maxRTUFrameLength * t1)]
    /\ ppc' = "discard"
    /\ UNCHANGED <<notPure, pin>>

\* discard(rt.link): up to 1024 bytes are read off the link and dropped
RtDiscard ==
    /\ ppc = "discard"
    /\ LET taken == Min(1024, Len(pin.rx)) IN
       pin' = [pin EXCEPT !.rx = SubSeq(@, taken + 1, Len(@)),
                          !.age = SubSeq(@, taken + 1, Len(@))]
    /\ pout' = [pout EXCEPT !.resync = Append(@, "discard")]
    /\ ppc' = "mark"
    /\ UNCHANGED <<notPure, pmid>>

\* rt.lastActivity = time.Now() unless the request timed out; the call
\* returns
RtReturn ==
    /\ ppc = "mark"
    /\ pmid' = IF pout.err # "ErrRequestTimedOut"
               THEN [pmid EXCEPT !.idle = 0] ELSE pmid
    /\ ppc' = "ready"
    /\ UNCHANGED <<notPure, pin, pout>>

\* the line carries bytes of the device to the link: the first two, or all
RtReceive ==
    /\ pin.due # <<>>
    /\ \E k \in {2, Len(pin.due)} :
         /\ k <= Len(pin.due)
         /\ pin' = [pin EXCEPT
                      !.rx = @ \o SubSeq(pin.due, 1, k),
                      !.age = @ \o [i \in 1..k |-> "current"],
                      !.due = SubSeq(@, k + 1, Len(@))]
    /\ UNCHANGED <<notPure, ppc, pmid, pout>>

\* time passes
RtPassTime ==
    /\ pmid.idle < t35
    /\ pmid' = [pmid EXCEPT !.idle = @ + 1]
    /\ UNCHANGED <<notPure, ppc, pin, pout>>

RtExecNext ==
    \/ RtSetDeadline
    \/ RtSetDeadlineFails
    \/ RtInterFrameWait
    \/ RtWrite
    \/ RtWriteFails
    \/ RtTurnaround
    \/ RtRead
    \/ RtResyncSleep
    \/ RtDiscard
    \/ RtReturn
    \/ RtReceive
    \/ RtPassTime

SpecRtExec == RtExecInit /\ [][RtExecNext]_vars

(***************************************************************************)
(* tcpTransport.ExecuteRequest under its deadline, with a peer that may    *)
(* send frames for as long as it likes.                                    *)
(***************************************************************************)

\* tt.timeout, in ticks of the clock
TimeoutTicks == 2

notMbapTime ==
    <<serverVars, dispatchVars, clientVars, callVars, histVars, pureVars>>

\* a read or a write on a socket fails once the deadline has passed, data
\* or no data
DeadlinePassedNever(left) == FALSE
DeadlinePassed(left) == left = 0

\* the frames the peer may send while a request is executed: its reply, the
\* reply under the transaction id before, and the frames that are no reply
DlPeerFrames ==
    {assembleMBAPFrame(t, ReplyPdu(sent[cur], <<10>>)) :
        t \in {lastTxnId, (lastTxnId + 65535) % 65536}}
    \cup OtherFrames

DlInit ==
    /\ ServerIdle
    /\ DispatchIdle
    /\ ClientIdle
    /\ CallIdle
    /\ HistIdle
    /\ PureIdle
    /\ TimeIdle
    /\ lastTxnId \in EarlierTxnIds
    /\ tpc = "idle"
    /\ hdr = NoHdr
    /\ rx = <<>>
    /\ sent = <<>>
    /\ ret = NoRet
    /\ nframes = 0
    /\ answered = {}
    /\ ncalls = 0
    /\ cur = 0

\* ExecuteRequest up to the call of readResponse: SetDeadline sets the
\* deadline tt.timeout from now, or fails; the transaction id is incremented;
\* the write may fail
DlExecuteRequest(r) ==
    /\ tpc = "idle"
    /\ ncalls < MaxRequests
    /\ ncalls' = ncalls + 1
    /\ \/ /\ ret' = [res |-> NoPdu, err |-> "i/o error"]
          /\ cur' = 0
          /\ UNCHANGED <<lastTxnId, sent, tpc, timeLeft>>
       \/ /\ timeLeft' = TimeoutTicks
          /\ lastTxnId' = (lastTxnId + 1) % 65536
          /\ \/ /\ ret' = [res |-> NoPdu, err |-> "i/o error"]
                /\ cur' = 0
                /\ UNCHANGED <<sent, tpc>>
             \/ /\ sent' = Append(sent, assembleMBAPFrame(lastTxnId', r))
                /\ cur' = Len(sent')
                /\ ret' = NoRet
                /\ tpc' = "header"
    /\ UNCHANGED <<notMbapTime, hdr, rx, nframes, answered>>

\* readMBAPFrame: the header arrived before the deadline
DlReadHeader ==
    /\ tpc = "header"
    /\ ~DeadlinePassed(timeLeft)
    /\ Len(rx) >= mbapHeaderLength
    /\ LET h == DecodeHeader(SubSeq(rx, 1, mbapHeaderLength)) IN
       IF BadHeaderLength(h.bytesNeeded)
          THEN /\ ret' = [res |-> NoPdu, err |-> "ErrProtocolError"]
               /\ tpc' = "idle"
               /\ hdr' = NoHdr
          ELSE /\ hdr' = h
               /\ tpc' = "body"
               /\ UNCHANGED ret
    /\ rx' = SubSeq(rx, mbapHeaderLength + 1, Len(rx))
    /\ UNCHANGED <<notMbapTime, lastTxnId, sent, nframes, answered, ncalls,
                   cur, timeLeft>>

\* readMBAPFrame: the PDU arrived before the deadline; readResponse skips
\* the frame and reads on, or returns it
DlReadBody ==
    /\ tpc = "body"
    /\ ~DeadlinePassed(timeLeft)
    /\ Len(rx) >= hdr.bytesNeeded
    /\ LET rxbuf == SubSeq(rx, 1, hdr.bytesNeeded)
           p == [unitId |-> hdr.unitId, functionCode |-> rxbuf[1],
                 payload |-> SubSeq(rxbuf, 2, Len(rxbuf))]
       IN  IF hdr.protocolId # 0 \/ Skips(lastTxnId, hdr.txnId)
              THEN /\ tpc' = "header"
                   /\ UNCHANGED ret
              ELSE /\ tpc' = "idle"
                   /\ ret' = [res |-> p, err |-> "nil"]
    /\ rx' = SubSeq(rx, hdr.bytesNeeded + 1, Len(rx))
    /\ hdr' = NoHdr
    /\ UNCHANGED <<notMbapTime, lastTxnId, sent, nframes, answered, ncalls,
                   cur, timeLeft>>

\* io.ReadFull at or after the deadline: the read fails, the bytes it had
\* got before are lost
DlReadExpired ==
    /\ tpc \in {"header", "body"}
    /\ DeadlinePassed(timeLeft)
    /\ LET need == IF tpc = "header" THEN mbapHeaderLength ELSE hdr.bytesNeeded IN
       \E k \in 0..(need - 1) :
           /\ k <= Len(rx)
           /\ rx' = SubSeq(rx, k + 1, Len(rx))
    /\ ret' = [res |-> NoPdu, err |-> "timeout"]
    /\ tpc' = "idle"
    /\ hdr' = NoHdr
    /\ UNCHANGED <<notMbapTime, lastTxnId, sent, nframes, answered, ncalls,
                   cur, timeLeft>>

\* the clock ticks
DlTick ==
    /\ timeLeft > 0
    /\ timeLeft' = timeLeft - 1
    /\ UNCHANGED <<notMbapTime, mbapVars>>

\* the peer sends one more frame once the transport has read the one before
DlPeerSends ==
    /\ cur > 0
    /\ rx = <<>>
    /\ \E f \in DlPeerFrames : rx' = f
    /\ nframes' = Min(nframes + 1, MaxFrames)
    /\ UNCHANGED <<notMbapTime, lastTxnId, tpc, hdr, sent, ret, answered,
                   ncalls, cur, timeLeft>>

DlNext ==
    \/ \E r \in ClientRequests : DlExecuteRequest(r)
    \/ DlReadHeader
    \/ DlReadBody
    \/ DlReadExpired
    \/ DlTick
    \/ DlPeerSends

SpecMbapDeadline == DlInit /\ [][DlNext]_vars

\* time passes, and the goroutine in ExecuteRequest runs: a read returns
\* once its bytes have arrived or its deadline has passed
DlFairness ==
    /\ WF_vars(DlTick)
    /\ WF_vars(DlReadHeader \/ DlReadBody \/ DlReadExpired)

SpecMbapDeadlineFair == DlInit /\ [][DlNext]_vars /\ DlFairness

(***************************************************************************)
(* ModbusClient: ReadUint32s and ReadUint64s (ReadFloat32s and             *)
(* ReadFloat64s compute their register count the same way).                *)
(***************************************************************************)

WideMethods == {"ReadUint32s", "ReadUint64s"}

\* the quantities the callers ask for: around the limit of 123 registers and
\* around the values whose register count passes 2^16
WideQuantities == {0, 1, 2, 30, 31, 61, 62, 16384, 16385, 32768, 32769, 65535}

WideArgs ==
    {[meth |-> m, unitId |-> 1, addr |-> a, quantity |-> q, regType |-> t,
      endianness |-> e, wordOrder |-> o] :
        m \in WideMethods, a \in {0, 65535}, q \in WideQuantities,
        t \in {"HOLDING_REGISTER", "other"},
        e \in {"BIG_ENDIAN"}, o \in WordOrders}

\* quantity * 2 and quantity * 4, in uint16
RegisterCount(meth, quantity) ==
    (quantity * (IF meth = "ReadUint32s" THEN 2 ELSE 4)) % 65536

\* the call of mc.readRegisters the method makes
ReadRegistersArgs(a) ==
    [meth |-> "readRegisters", unitId |-> a.unitId, addr |-> a.addr,
     quantity |-> RegisterCount(a.meth, a.quantity), regType |-> a.regType]

\* bytesToUint32s or bytesToUint64s of the bytes mc.readRegisters returned
DecodeWide(a, mbPayload) ==
    IF a.meth = "ReadUint32s"
    THEN bytesToUint32s(a.endianness, a.wordOrder, mbPayload) \o <<>>
    ELSE bytesToUint64s(a.endianness, a.wordOrder, mbPayload) \o <<>>

WideInit ==
    /\ TimeIdle
    /\ ServerIdle
    /\ DispatchIdle
    /\ MbapIdle
    /\ ClientIdle
    /\ CallIdle
    /\ HistIdle
    /\ ppc = "start"
    /\ pin \in WideArgs
    /\ pmid = NoValue
    /\ pout = NoValue

\* the method calls mc.readRegisters, which checks its parameters and, unless
\* it returns for one of them, hands the request to mc.executeRequest
WideCall ==
    /\ ppc = "start"
    /\ LET b == BeginReadRegisters(ReadRegistersArgs(pin)) IN
       /\ pmid' = b
       /\ IF b.req = NoPdu
             THEN /\ pout' = [err |-> b.err, values |-> <<>>]
                  /\ ppc' = "done"
             ELSE /\ ppc' = "sent"
                  /\ UNCHANGED pout
    /\ UNCHANGED <<notPure, pin>>

\* mc.executeRequest returns an error of the transport
WideFails ==
    /\ ppc = "sent"
    /\ \E e \in TransportErrors : pout' = [err |-> e, values |-> <<>>]
    /\ ppc' = "done"
    /\ UNCHANGED <<notPure, pin, pmid>>

\* the transport returns a response: mc.readRegisters checks it and the
\* method decodes the bytes
WideReturns ==
    /\ ppc = "sent"
    /\ Responses(ReadRegistersArgs(pin), pmid.req) # {}
    /\ \E rs \in Responses(ReadRegistersArgs(pin), pmid.req) :
         LET e == Finish(ReadRegistersArgs(pin), pmid.req, rs) IN
         pout' = [err |-> e,
                  values |-> IF e = "nil"
                                THEN DecodeWide(pin, Tail(rs.payload))
                                ELSE <<>>]
    /\ ppc' = "done"
    /\ UNCHANGED <<notPure, pin, pmid>>

WideNext == WideCall \/ WideFails \/ WideReturns

SpecWide == WideInit /\ [][WideNext]_vars

\* The goroutines run whenever they can: a blocked Accept() returns once its
\* listener is closed, every call a session makes returns (ReadRequest no
\* later than its deadline), and ms.lock is granted to whoever waits for it.
\* New connections, Start and Stop are up to the environment.
ServerFairness ==
    /\ WF_vars(LoopCallAccept)
    /\ WF_vars(LoopExit)
    /\ \A c \in Conns :
           /\ WF_vars(LoopCheck(c))
           /\ WF_vars(LoopReject(c))
           /\ WF_vars(SessStep(c))

SpecServerFair == ServerInit /\ [][ServerNext]_vars /\ ServerFairness

(***************************************************************************)
(* Claims about the server's session pool.                                 *)
(***************************************************************************)

\* the sessions that have not yet removed their connection from the pool
LiveSessions == {c \in Conns : sess[c] \in {"tls", "read", "handle", "remove"}}

\* C1: under every interleaving of incoming connections, session ends, Start
\* and Stop, ms.tcpClients never holds more than MaxClients connections.
C1_PoolBounded == Len(tcpClients) <= MaxClients

\* C1 witness: the pool is full and a further connection found it full.
C1_Witness == Len(tcpClients) = MaxClients /\ sawFull # {}

\* C3: a connection whose admission check finds the pool full is never added
\* to the pool, never gets a session (so no request on it is read, let alone
\* handled), and is closed by the accept loop's very next step.
C3_FullIsRejected ==
    \A c \in sawFull :
        /\ c \notin Range(tcpClients)
        /\ sess[c] = "none"
        /\ c \in sockClosed \/ c \in accLoop.reject

\* C3 witness: a connection was turned away from a full pool and closed while
\* the admitted one is still being served.
C3_Witness ==
    \E c \in sawFull : c \in sockClosed /\ \E d \in Conns : sess[d] = "handle"

\* C4: once handleTCPClient is past its removal step the connection is out of
\* the pool, once it has returned the connection is closed as well, and the
\* pool holds exactly the connections of the sessions still running: the slot
\* of an ended session is free again.
C4_EndedIsClosedAndRemoved ==
    /\ \A c \in Conns :
           /\ sess[c] \in {"close", "done"} => c \notin Range(tcpClients)
           /\ sess[c] = "done" => c \in sockClosed
    /\ Range(tcpClients) = LiveSessions
    /\ Len(tcpClients) = Cardinality(LiveSessions)

\* C4 witness: a session has ended and a later connection fills the pool again.
C4_Witness ==
    \E c \in Conns :
        /\ sess[c] = "done"
        /\ Len(tcpClients) = MaxClients
        /\ \A i \in 1..Len(tcpClients) : tcpClients[i] > c

\* C5: whenever the server is stopped (in particular when Stop returns, which
\* it does holding ms.lock), its listener is closed and every connection of
\* the pool is closed.
C5_StopClosesAll ==
    ~started =>
        /\ tcpListener # "open"
        /\ Range(tcpClients) \subseteq sockClosed

\* C5 witness: Stop has run while sessions were active.
C5_Witness == ~started /\ tcpListener = "closed" /\ tcpClients # <<>>

\* C6: a stopped server's pool empties unless the server is started again,
\* and an empty pool of a stopped server stays empty until then.
C6_StoppedPoolEmpties ==
    /\ (~started) ~> (started \/ tcpClients = <<>>)
    /\ [][(~started /\ tcpClients = <<>> /\ ~started') => tcpClients' = <<>>]_vars

\* C6 witness: after Stop, the pool has emptied and a connection accepted
\* before Stop has been turned away.
C6_Witness ==
    /\ ~started /\ tcpListener = "closed" /\ tcpClients = <<>>
    /\ \E c \in Conns : sess[c] = "done"
    /\ \E c \in Conns : sess[c] = "none" /\ c \in sockClosed

(***************************************************************************)
(* Claims about the request loop (SpecDispatch).                           *)
(***************************************************************************)

HasFormat(r) ==
    r.functionCode \in
        {fcReadCoils, fcReadDiscreteInputs, fcReadHoldingRegisters,
         fcReadInputRegisters, fcWriteSingleCoil, fcWriteSingleRegister,
         fcWriteMultipleCoils, fcWriteMultipleRegisters}
BadLength(r) ==
    /\ HasFormat(r)
    /\ CASE r.functionCode = fcWriteMultipleCoils ->
                \/ Len(r.payload) < 5
                \/ Len(r.payload) # 5 + ByteCount(ReqQty(r))
         [] r.functionCode = fcWriteMultipleRegisters ->
                \/ Len(r.payload) < 5
                \/ Len(r.payload) # 5 + 2 * ReqQty(r)
         [] OTHER -> Len(r.payload) # 4

\* the request of the current iteration has been dealt with
Served == req # NoPdu /\ hpc \in {"reset", "returned"}

\* C9 as stated: a request whose payload length does not match the format of
\* its function code is answered with an exception response carrying
\* code 0x03.
C9_BadLengthGetsIllegalDataValue ==
    (Served /\ BadLength(req))
        => (hpc = "reset" /\ res = ExceptionPdu(req, exIllegalDataValue))

\* a multiple-write request whose range runs past 0xffff: the address check
\* comes before the checks of the byte count and of the length
RangeCheckedFirst(r) ==
    /\ r.functionCode \in {fcWriteMultipleCoils, fcWriteMultipleRegisters}
    /\ Len(r.payload) >= 6
    /\ QuantityOK(r.functionCode, ReqQty(r))
    /\ PastEnd(ReqAddr(r), ReqQty(r))

\* C9 (amended): a request whose payload length does not match the format of
\* its function code never reaches the handler and is never answered with
\* exception code 0x03: the transport is closed without a response, except
\* for a write-multiple request of at least 6 bytes with a valid quantity and
\* a range past 0xffff, which is answered with exception code 0x02.
C9_BadLengthClosesLink ==
    (req # NoPdu /\ hpc \in {"respond", "reset", "returned"} /\ BadLength(req))
        => /\ call = NoCall
           /\ res # ExceptionPdu(req, exIllegalDataValue)
           /\ Served =>
                  IF RangeCheckedFirst(req)
                     THEN /\ hpc = "reset"
                          /\ res = ExceptionPdu(req, exIllegalDataAddress)
                     ELSE /\ hpc = "returned"
                          /\ tClosed
                          /\ wrote = "none"
                          /\ res = NoPdu

C9_Witness ==
    /\ Served
    /\ BadLength(req)
    /\ req.functionCode = fcReadCoils
    /\ Len(req.payload) = 3
    /\ hpc = "returned"
    /\ tClosed
    /\ wrote = "none"

\* C10: the handler is invoked only for a request whose quantity is within
\* the limits of its function code (1..2000 for 0x01/0x02, 1..125 for
\* 0x03/0x04, 1..1968 for 0x0F, 1..123 for 0x10) and whose address plus
\* quantity is at most 0x10000; it is handed that address and quantity.
C10_HandlerArgsInBounds ==
    (call # NoCall /\ req.functionCode \notin {fcWriteSingleCoil, fcWriteSingleRegister})
        => LET fc == req.functionCode
               quantity == ReqQty(req)
               addr == ReqAddr(req)
           IN  /\ fc \in {fcReadCoils, fcReadDiscreteInputs} => quantity \in 1..2000
               /\ fc \in {fcReadHoldingRegisters, fcReadInputRegisters} => quantity \in 1..125
               /\ fc = fcWriteMultipleCoils => quantity \in 1..1968
               /\ fc = fcWriteMultipleRegisters => quantity \in 1..123
               /\ addr + quantity <= 65536
               /\ call.addr = addr
               /\ call.quantity = quantity

C10_Witness ==
    /\ hpc = "respond"
    /\ call # NoCall
    /\ req.functionCode = fcReadHoldingRegisters
    /\ call.fn = "HandleHoldingRegisters"
    /\ call.quantity = 125
    /\ call.addr = 65411

\* a write request with an invalid field: a write-single-coil value other
\* than 0x0000 and 0xff00, or a write-multiple-coils byte count that does not
\* match the quantity
InvalidWriteField(r) ==
    \/ /\ r.functionCode = fcWriteSingleCoil
       /\ Len(r.payload) = 4
       /\ ReqQty(r) \notin {0, 65280}
    \/ /\ r.functionCode = fcWriteMultipleCoils
       /\ Len(r.payload) >= 5
       /\ r.payload[5] # ByteCount(ReqQty(r))

\* the link was closed on the request, which got no response
ClosedWithoutResponse ==
    /\ hpc = "returned"
    /\ tClosed
    /\ wrote = "none"
    /\ res = NoPdu

\* C11 as stated: a write request with an invalid field is a protocol error:
\* the handler is not invoked, no response is sent and the link is closed.
C11_InvalidWriteIsProtocolError ==
    (Served /\ InvalidWriteField(req)) => (call = NoCall /\ ClosedWithoutResponse)

\* C11 (amended): a write request with an invalid field never reaches the
\* handler; the link is closed without a response, except for a
\* write-multiple-coils request of at least 6 bytes with a valid quantity and
\* a range past 0xffff, which is answered with exception code 0x02 and
\* leaves the link open.
C11_InvalidWriteNeverHandled ==
    (req # NoPdu /\ hpc \in {"respond", "reset", "returned"} /\ InvalidWriteField(req))
        => /\ call = NoCall
           /\ Served =>
                  IF RangeCheckedFirst(req)
                     THEN /\ hpc = "reset"
                          /\ ~tClosed
                          /\ res = ExceptionPdu(req, exIllegalDataAddress)
                     ELSE ClosedWithoutResponse

C11_Witness ==
    /\ Served
    /\ req.functionCode = fcWriteMultipleCoils
    /\ Len(req.payload) = 5 + ByteCount(ReqQty(req))
    /\ QuantityOK(req.functionCode, ReqQty(req))
    /\ ~PastEnd(ReqAddr(req), ReqQty(req))
    /\ InvalidWriteField(req)
    /\ call = NoCall
    /\ ClosedWithoutResponse

\* the handler returned no error and a number of items other than asked for
WrongCount ==
    /\ call # NoCall
    /\ ~call.isWrite
    /\ call.returned.err = "nil"
    /\ call.returned.n # call.quantity

\* C12: when the handler returns no error for a read request but a number of
\* items different from the requested quantity, the server replies with
\* exception code 0x04 and none of the returned items is sent; the link
\* stays open.
C12_WrongCountIsDeviceFailure ==
    WrongCount
        => /\ hpc \in {"respond", "reset"}
           /\ ~tClosed
           /\ hpc = "respond" => (err = "ErrServerDeviceFailure" /\ res = NoPdu)
           /\ hpc = "reset" => res = ExceptionPdu(req, exServerDeviceFailure)

C12_Witness ==
    /\ WrongCount
    /\ hpc = "reset"
    /\ wrote = "written"
    /\ req.functionCode = fcReadHoldingRegisters
    /\ call.returned.n = call.quantity + 1
    /\ res.payload = <<exServerDeviceFailure>>

\* what the client call that issued rq makes of the exception response rs
ClientExceptionResult(rq, rs) ==
    IF CheckUnitId(rq, rs) # "nil" THEN CheckUnitId(rq, rs)
    ELSE IF rs.functionCode = OrHighBit(rq.functionCode) THEN ExceptionError(rs)
    ELSE "no exception"

\* C13: when the handler returns one of the nine typed Modbus errors, the
\* server sends the corresponding exception response, from which the client
\* call that issued the request gets that same error; the session stays open
\* for further requests.
C13_TypedErrorRoundTrip ==
    (call # NoCall /\ call.returned.err \in ModbusErrors)
        => /\ hpc \in {"respond", "reset"}
           /\ ~tClosed
           /\ hpc = "respond" => err = call.returned.err
           /\ hpc = "reset" =>
                  /\ res = ExceptionPdu(req, mapErrorToExceptionCode(call.returned.err))
                  /\ ClientExceptionResult(req, res) = call.returned.err

C13_Witness ==
    /\ call # NoCall
    /\ call.returned.err = "ErrServerDeviceBusy"
    /\ hpc = "reset"
    /\ wrote = "written"
    /\ res.payload = <<exServerDeviceBusy>>
    /\ ClientExceptionResult(req, res) = "ErrServerDeviceBusy"

\* C14 as stated: when the handler returns any error other than a typed
\* Modbus error, the server replies with an exception response carrying
\* code 0x04.
C14_OtherErrorIsDeviceFailure ==
    (Served /\ call # NoCall /\ call.returned.err \notin ModbusErrors \cup {"nil"})
        => (hpc = "reset" /\ res = ExceptionPdu(req, exServerDeviceFailure))

\* C15: a request with a function code other than 0x01..0x06, 0x0f and 0x10
\* is answered with function code FC|0x80 and exception code 0x01 without
\* invoking the handler, and the session goes on with the next request.
C15_UnknownFunctionIsIllegalFunction ==
    (req # NoPdu /\ ~HasFormat(req) /\ hpc \in {"respond", "reset", "returned"})
        => /\ call = NoCall
           /\ hpc # "returned"
           /\ ~tClosed
           /\ res = [unitId |-> req.unitId,
                     functionCode |-> OrHighBit(req.functionCode),
                     payload |-> <<exIllegalFunction>>]
           /\ hpc = "respond" => err = "nil"

C15_Witness ==
    /\ hpc = "reset"
    /\ wrote = "written"
    /\ req.functionCode = fcMaskWriteRegister
    /\ res.functionCode = 150
    /\ res.payload = <<1>>

(***************************************************************************)
(* Claims about the client's request methods (SpecCall).                   *)
(***************************************************************************)

\* a call has returned an error of its parameters without any exchange
RejectedWithoutExchange ==
    /\ mreq = NoPdu
    /\ mres = NoPdu
    /\ merr = "ErrUnexpectedParameters"

\* C16: a read of registers with a quantity of 0 or of more than 125, or with
\* addr + quantity above 0x10000, returns an error of its parameters and no
\* request is handed to the transport.
C16_ReadRegistersRejectsBadParameters ==
    (/\ mpc # "idle"
     /\ margs.meth = "readRegisters"
     /\ margs.regType \in {"HOLDING_REGISTER", "INPUT_REGISTER"}
     /\ \/ margs.quantity = 0
        \/ margs.quantity > 125
        \/ margs.addr + margs.quantity > 65536)
        => RejectedWithoutExchange

\* C17: a read of coils or of discrete inputs with a quantity of 0 or of more
\* than 2000, or with addr + quantity above 0x10000, returns an error of its
\* parameters and no request is handed to the transport.
C17_ReadBoolsRejectsBadParameters ==
    (/\ mpc # "idle"
     /\ margs.meth = "readBools"
     /\ \/ margs.quantity = 0
        \/ margs.quantity > 2000
        \/ margs.addr + margs.quantity > 65536)
        => (mpc = "returned" /\ RejectedWithoutExchange)

\* ReadCoils(0xFFFE, 3) has returned
C17_Witness ==
    /\ mpc = "returned"
    /\ margs.meth = "readBools"
    /\ RejectedWithoutExchange
    /\ margs.addr = 65534
    /\ margs.quantity = 3
    /\ ~margs.di

\* C18: WriteCoils with no value or with more than 1968 values, and
\* WriteRegisters with no register or with more than 123 registers, return an
\* error of their parameters and no request is handed to the transport,
\* whatever the length of the slice.
C18_WritesRejectBadLengths ==
    (/\ mpc # "idle"
     /\ \/ (margs.meth = "WriteCoils" /\ (margs.n = 0 \/ margs.n > 1968))
        \/ (margs.meth = "WriteRegisters" /\ (margs.n = 0 \/ margs.n > 123)))
        => RejectedWithoutExchange

\* C19: a response passes mc.executeRequest only if its unit id is the one of
\* the request, or it is a negative response with unit id 0xFF; with every
\* other response the call returns ErrBadUnitId.
C19_UnitIdChecked ==
    (mpc = "returned" /\ mres # NoPdu)
        => ((merr = "ErrBadUnitId")
             <=> ~(\/ mres.unitId = mreq.unitId
                   \/ (mres.functionCode >= 128 /\ mres.unitId = 255)))

\* a negative response of a gateway (unit id 0xFF, not the unit id of the
\* request) has been accepted and turned into the error of its exception code
C19_Witness ==
    /\ mpc = "returned"
    /\ mres # NoPdu
    /\ mres.unitId = 255
    /\ mres.unitId # mreq.unitId
    /\ mres.functionCode = OrHighBit(mreq.functionCode)
    /\ Len(mres.payload) = 1
    /\ merr = mapExceptionCodeToError(mres.payload[1])
    /\ merr # "ErrBadUnitId"

WriteMethods ==
    {"WriteCoil", "WriteCoils", "WriteRegister", "WriteRegisters", "WriteUint32"}

\* the response carries the address of the request and its value or quantity
EchoesRequest == mres.payload = SubSeq(mreq.payload, 1, 4)

\* C20: a write returns without error only if the response echoes the address
\* and the value (0xFF00 for true and 0x0000 for false with WriteCoil) or the
\* quantity of the request; a positive response with another address, value or
\* quantity yields ErrProtocolError.
C20_WriteSucceedsOnlyOnEcho ==
    (/\ mpc = "returned"
     /\ margs.meth \in WriteMethods
     /\ mres # NoPdu)
        => /\ (merr = "nil" => EchoesRequest)
           /\ (/\ mres.functionCode = mreq.functionCode
               /\ mres.unitId = mreq.unitId
               /\ ~EchoesRequest) => merr = "ErrProtocolError"

\* the quantity a request announces, for the methods whose request has one
RequestQuantity(a) ==
    CASE a.meth \in {"readBools", "readRegisters"} -> a.quantity
      [] a.meth = "WriteCoils" -> a.n % 65536
      [] a.meth = "WriteRegisters" -> ((2 * a.n) % 65536) \div 2
      [] a.meth = "WriteUint32" -> 2
      [] OTHER -> -1

\* C21: whatever endianness and word order are configured, the address and
\* the quantity of a request, and the fields of the MBAP header of its frame,
\* are in big-endian byte order.
C21_ArgumentsAreBigEndian ==
    mreq # NoPdu =>
        /\ mreq.payload[1] = margs.addr \div 256
        /\ mreq.payload[2] = margs.addr % 256
        /\ RequestQuantity(margs) # -1
              => /\ mreq.payload[3] = RequestQuantity(margs) \div 256
                 /\ mreq.payload[4] = RequestQuantity(margs) % 256
        /\ SubSeq(assembleMBAPFrame(258, mreq), 1, 6)
              = <<1, 2, 0, 0, ((2 + Len(mreq.payload)) % 65536) \div 256,
                  (2 + Len(mreq.payload)) % 256>>

\* WriteRegister(1, 0x1234) on a little-endian client: the address is 00 01
\* and the value 34 12
C21_Witness ==
    /\ mpc = "exchange"
    /\ margs.meth = "WriteRegister"
    /\ margs.endianness = "LITTLE_ENDIAN"
    /\ margs.addr = 1
    /\ mreq.payload = <<0, 1, 52, 18>>

(***************************************************************************)
(* Claims about the server side of the MBAP transport (SpecMbapServer).    *)
(***************************************************************************)

\* s begins with the bytes of f
StartsWith(s, f) == Len(s) >= Len(f) /\ SubSeq(s, 1, Len(f)) = f

\* the last ReadRequest has read a whole header and decided on it
HeaderRead == called # NoRead /\ ret.err # "i/o error"

\* the protocol identifier and the length field of the header it read
CalledProtocolId == bytesToUint16("BIG_ENDIAN", SubSeq(called.rx, 3, 4))
CalledLength == bytesToUint16("BIG_ENDIAN", SubSeq(called.rx, 5, 6))

\* C25: a frame assembled from a transaction id t and a PDU p, of at most 260
\* bytes, is parsed back into t and p, and the bytes of the frame, no more
\* and no fewer, are taken from the stream.
C25_ParseOfAssemble ==
    HeaderRead =>
        \A t \in FrameTxnIds, q \in FramePdus :
            LET f == assembleMBAPFrame(t, q) IN
            (Len(f) <= maxTCPFrameLength /\ StartsWith(called.rx, f))
                => /\ ret = [res |-> q, err |-> "nil"]
                   /\ lastTxnId = t
                   /\ rx = SubSeq(called.rx, Len(f) + 1, Len(called.rx))

\* a frame of 260 bytes with transaction id 0xFFFF was parsed, and the frame
\* that followed it is still on the stream
C25_Witness ==
    /\ HeaderRead
    /\ ret.err = "nil"
    /\ Len(ret.res.payload) = 252
    /\ lastTxnId = 65535
    /\ ret.res.functionCode = 131
    /\ Len(rx) = 12
    /\ Len(called.rx) = 272

\* C29: a response is written with the transaction id of the most recent
\* request that was read without error; a read that fails returns no request
\* and leaves tt.lastTxnId as it was.
C29_ResponseCarriesLastGoodTxnId ==
    /\ \A k \in 1..Len(sent) :
          wroteTxn[k].good # -1
              => bytesToUint16("BIG_ENDIAN", SubSeq(sent[k], 1, 2)) = wroteTxn[k].good
    /\ (called # NoRead /\ ret.err # "nil")
          => (ret.res = NoPdu /\ lastTxnId = called.lastTxnId)

\* a request with transaction id 0x1234 was read, the next read failed on a
\* foreign protocol identifier, and a response was written after that
C29_Witness ==
    /\ goodTxn = 4660
    /\ ret.err = "ErrUnknownProtocolId"
    /\ Len(sent) = 1
    /\ wroteTxn[1] = [good |-> 4660, err |-> "ErrUnknownProtocolId"]
    /\ bytesToUint16("BIG_ENDIAN", SubSeq(sent[1], 1, 2)) = 4660

\* C30 (as stated): the protocol identifier is checked first: a header with a
\* protocol identifier other than 0 yields ErrUnknownProtocolId, and
\* ErrProtocolError is returned only for a header whose protocol identifier is 0.
C30_ProtocolIdCheckedFirst ==
    HeaderRead =>
        /\ (CalledProtocolId # 0 => ret.err = "ErrUnknownProtocolId")
        /\ (ret.err = "ErrProtocolError" => CalledProtocolId = 0)

\* C30 (amended): the length is checked first: a header whose length field is
\* below 2 or above 254 yields ErrProtocolError whatever its protocol
\* identifier; ErrUnknownProtocolId is returned only for a header with a
\* length of 2 to 254 whose PDU was read.
C30_LengthCheckedFirst ==
    HeaderRead =>
        ret.err = (IF CalledLength < 2 \/ CalledLength > 254 THEN "ErrProtocolError"
                   ELSE IF CalledProtocolId # 0 THEN "ErrUnknownProtocolId"
                   ELSE "nil")

\* a header with protocol identifier 1 and a length of 1 got ErrProtocolError
C30_Witness ==
    /\ HeaderRead
    /\ CalledProtocolId = 1
    /\ CalledLength = 1
    /\ ret.err = "ErrProtocolError"

\* C31 (as stated): a PDU is returned only for a frame whose length field is
\* 2 to 253, and every frame with a length field outside 2..253 is rejected.
C31_PduOnlyForLength2To253 ==
    HeaderRead =>
        /\ (ret.err = "nil" => CalledLength \in 2..253)
        /\ (CalledLength \notin 2..253 => ret.res = NoPdu /\ ret.err # "nil")

\* C31 (amended): a PDU is returned only for a frame whose length field is
\* 2 to 254, the PDU holding the length - 1 bytes that follow the unit id;
\* every frame with a length field outside 2..254 is rejected with
\* ErrProtocolError.
C31_PduOnlyForLength2To254 ==
    HeaderRead =>
        /\ (ret.err = "nil"
               => /\ CalledLength \in 2..254
                  /\ 1 + Len(ret.res.payload) = CalledLength - 1)
        /\ (CalledLength \notin 2..254
               => ret.res = NoPdu /\ ret.err = "ErrProtocolError")

\* a frame with a length field of 254 (260 bytes in all) was parsed into a
\* PDU of 253 bytes
C31_Witness ==
    /\ HeaderRead
    /\ CalledLength = 254
    /\ ret.err = "nil"
    /\ Len(ret.res.payload) = 252

(***************************************************************************)
(* Claims about the encoding functions (SpecEncoding).                     *)
(***************************************************************************)

\* C27: a 16-, 32- or 64-bit value (a float being its bit pattern) that is
\* encoded and then decoded with the same endianness and word order is
\* returned unchanged.
C27_DecodeOfEncode == ppc = "done" => pout = pin.values

\* a 64-bit value with four different words went through the little-endian,
\* high-word-first encoding, which is neither of the plain byte orders
C27_Witness ==
    /\ ppc = "done"
    /\ pin.kind = "uint64"
    /\ pin.endianness = "LITTLE_ENDIAN"
    /\ pin.wordOrder = "HIGH_WORD_FIRST"
    /\ pin.values[1] = <<4660, 22136, 65280, 65535>>
    /\ SubSeq(pmid, 1, 8) = <<52, 18, 120, 86, 0, 255, 255, 255>>
    /\ pout[1] = pin.values[1]

(***************************************************************************)
(* Claims about extractRole (SpecRole).                                    *)
(***************************************************************************)

\* the values of the Modbus Role extensions of the certificate
RoleValues ==
    LET exts == pin.Extensions IN
    [k \in 1..Cardinality({i \in 1..Len(exts) : exts[i].Id = "modbusRoleOID"}) |->
        exts[CHOOSE i \in 1..Len(exts) :
                /\ exts[i].Id = "modbusRoleOID"
                /\ Cardinality({j \in 1..i : exts[j].Id = "modbusRoleOID"}) = k].Value]

\* v begins with a UTF8String: tag 0x0c, a length in its shortest form, all
\* the bytes the length announces, and those bytes are UTF-8
WellFormedUtf8String(v) ==
    /\ Len(v) >= 2
    /\ v[1] = 12
    /\ \/ /\ v[2] < 128
          /\ Len(v) >= 2 + v[2]
          /\ Utf8Valid(SubSeq(v, 3, 2 + v[2]))
       \/ /\ v[2] = 129
          /\ Len(v) >= 3
          /\ v[3] >= 128
          /\ Len(v) >= 3 + v[3]
          /\ Utf8Valid(SubSeq(v, 4, 3 + v[3]))
       \/ /\ v[2] = 130
          /\ Len(v) >= 4
          /\ v[3] > 0
          /\ Len(v) >= 4 + v[3] * 256 + v[4]
          /\ Utf8Valid(SubSeq(v, 5, 4 + v[3] * 256 + v[4]))

C28_EncodingReadUnderLock ==
    access # NoAccess => access.holder = access.caller

(***************************************************************************)
(* Claims about a client and a coil-storing server (SpecCoils).            *)
(***************************************************************************)

\* C22: once WriteCoils(addr, bits) has succeeded, ReadCoils(addr, len(bits))
\* fails only with an error of the connection, and when it succeeds it
\* returns exactly bits, in the same order.
C22_ReadReturnsWrittenCoils ==
    (ppc = "done" /\ pmid.err = "nil")
        => /\ pout.err \in {"nil", "i/o error"}
           /\ pout.err = "nil" => pout.values = pin.bits

\* the bits 1,0,1,1 were written at address 5 over coils that held other
\* values, and read back
C22_Witness ==
    /\ ppc = "done"
    /\ pin.addr = 5
    /\ pin.bits = <<TRUE, FALSE, TRUE, TRUE>>
    /\ pin.coils[6] = FALSE /\ pin.coils[7] = TRUE
    /\ pmid.err = "nil"
    /\ pout.err = "nil"
    /\ pout.values = <<TRUE, FALSE, TRUE, TRUE>>

(***************************************************************************)
(* Claims about the RTU transport (SpecRTU).                               *)
(***************************************************************************)

\* the frame of the response is within the maximum RTU frame length
FitsRtuFrame(p) == 2 + Len(p.payload) + 2 <= maxRTUFrameLength

\* C26: a response of any shape (a read with its byte count, the echo of a
\* write, an exception) whose frame fits 256 bytes and reaches the reader as
\* it was assembled is parsed, its CRC verified, into the response that was
\* assembled, the byte count still the first byte of the payload, and the
\* frame is consumed whole.
C26_RtuParseOfAssemble ==
    (ppc = "done" /\ pout.was = "sent" /\ FitsRtuFrame(pin))
        => /\ pout.read.err = "nil"
           /\ pout.read.res = pin
           /\ pout.read.rest = <<>>
           /\ crcIsEqual(crcAdd(crcInit, pmid, 1, Len(pmid) - 2),
                         pmid[Len(pmid) - 1], pmid[Len(pmid)])

\* a read response of 251 data bytes, whose frame is 256 bytes long, was
\* assembled and parsed back
C26_Witness ==
    /\ ppc = "done"
    /\ pout.was = "sent"
    /\ pin.functionCode = fcReadHoldingRegisters
    /\ pin.payload[1] = 251
    /\ Len(pmid) = maxRTUFrameLength
    /\ pout.read.res = pin

\* C23: on an MBAPS server, a session whose client did not present a
\* certificate verified against the client CA pool never reaches
\* handleTransport: none of its requests is read or handed to the handler.
C23_UnverifiedClientNeverServed ==
    \A c \in Conns :
        (tlsMode /\ peerCert[c] # "verified") => sess[c] \notin {"read", "handle"}

\* on an MBAPS server, the session of a client whose certificate did not
\* verify is over after its handshake: its connection is about to be
\* removed from the pool and closed
C23_Witness ==
    /\ tlsMode
    /\ \E c \in Conns : peerCert[c] = "untrusted" /\ sess[c] = "remove"

(***************************************************************************)
(* Claims about the UDP socket wrapper (SpecUDP).                          *)
(***************************************************************************)

\* the datagrams from number k on, one after the other
RECURSIVE Joined(_, _)
Joined(ds, k) == IF k > Len(ds) THEN <<>> ELSE ds[k] \o Joined(ds, k + 1)

\* C32: when no datagram is longer than usw.rxbuf, the bytes the reads have
\* returned so far, followed by the bytes left over in the wrapper and by
\* the datagrams not yet received, are the datagrams one after the other:
\* no byte is lost, repeated or moved, whatever the sizes of the reads.
C32_ReadsReturnTheDatagrams ==
    (\A k \in 1..Len(pin) : Len(pin[k]) <= maxTCPFrameLength)
        => pout \o SubSeq(pmid.rxbuf, 1, pmid.leftoverCount)
               \o Joined(pin, pmid.received + 1)
           = Joined(pin, 1)

\* a datagram of three bytes was returned by two reads, then a datagram as
\* long as the buffer by further reads, to its end
C32_Witness ==
    /\ ppc = "done"
    /\ Len(pin) = 2
    /\ pin[1] = <<2, 3, 4>>
    /\ Len(pin[2]) = maxTCPFrameLength
    /\ pout = pin[1] \o pin[2]

(***************************************************************************)
(* Claims about rtuTransport.ExecuteRequest (SpecRtExec).                  *)
(***************************************************************************)

\* the call has read a response, or failed to, and is past the handling of
\* the error
RtReadDone == ppc \in {"mark", "ready"} /\ pout.gap >= 0

\* C33: when reading the response fails with a bad CRC, a protocol error or
\* a short frame, the transport has slept maxRTUFrameLength * t1 and then
\* flushed the link by the time the error is returned, and otherwise it
\* has done neither.
C33_ResyncBeforeErrorReturned ==
    RtReadDone =>
        pout.resync = IF pout.err \in {"ErrBadCRC", "ErrProtocolError",
                                       "ErrShortFrame"}
                      THEN <<maxRTUFrameLength * t1, "discard">>
                      ELSE <<>>

\* a call returned ErrShortFrame after the resynchronisation
C33_Witness ==
    /\ ppc = "ready"
    /\ pout.err = "ErrShortFrame"
    /\ pout.resync = <<maxRTUFrameLength * t1, "discard">>

\* C34: a request frame is written t3.5 or more after rt.lastActivity.
C34_WriteAfterInterFrameDelay ==
    ppc \notin {"ready", "wait", "write"} => pout.gap >= t35

\* a call that began less than t3.5 after rt.lastActivity has slept and
\* written its frame
C34_Witness ==
    /\ ppc = "sent"
    /\ pout.waited > 0
    /\ pout.gap >= t35

\* C39: the response a call returns is made only of bytes that the link
\* received after the call wrote its request frame.
C39_ResponseFromBytesAfterWrite ==
    (ppc = "ready" /\ pout.err = "nil" /\ pout.res # NoPdu)
        => pout.used = {"current"}

\* C35: a failure to write a response does not end the session: the
\* transport stays open, handleTransport goes to the bottom of its loop and
\* from there to the next ReadRequest.
C35_WriteFailureKeepsSession ==
    /\ [](wrote = "write failed" => hpc = "reset" /\ ~tClosed)
    /\ [][wrote = "write failed" => hpc' = "read" /\ ~tClosed']_vars

\* the session read a further request after a response could not be written
C35_Witness ==
    /\ hpc = "read"
    /\ err = "i/o error"
    /\ wrote = "none"
    /\ ~tClosed

\* C36: ExecuteRequest returns, whatever the peer sends and for however
\* long: readResponse goes round its loop only before the deadline set at
\* the start of the call, and a call in progress always comes to its end.
C36_ExecuteRequestReturns ==
    /\ [][(tpc # "idle" /\ tpc' # "idle" /\ tpc' # tpc) => timeLeft > 0]_vars
    /\ (tpc # "idle") ~> (tpc = "idle")

\* the first call returned a timeout after the peer had sent frame upon
\* frame
C36_Witness ==
    /\ tpc = "idle"
    /\ ncalls = 1
    /\ ret = [res |-> NoPdu, err |-> "timeout"]
    /\ nframes = MaxFrames
    /\ timeLeft = 0

\* C37: once Stop() has returned no handler is invoked: a session that had
\* read a request before Stop() does not go on to process it while the
\* server is stopped.
C37_NoHandlerCallAfterStop ==
    [][\A c \in Conns : (sess[c] = "handle" /\ sess'[c] # "handle") => started]_vars

\* C38: at most one acceptTCPClients goroutine waits in Accept() on the open
\* listener: the goroutine of an earlier Start() is never found accepting on
\* the listener of a later one, next to the goroutine which that Start()
\* launched.
C38_OneAcceptLoopPerListener == accLoop.open <= 1

\* C40: a read of quantity 32-bit or 64-bit values returns an error or
\* quantity values.
C40_WideReadReturnsQuantityValues ==
    (ppc = "done" /\ pin \in WideArgs /\ pout.err = "nil")
        => Len(pout.values) = pin.quantity

(***************************************************************************)
(* Claims about the MBAP transport (SpecMBAP).                             *)
(***************************************************************************)

\* C2: the response ExecuteRequest returns for the request it sent with
\* transaction id T is a reply the peer made to that very request, whatever
\* the earlier requests and whatever the peer sends and when.
C2_ResponseMatchesRequest ==
    (tpc = "idle" /\ ret # NoRet /\ ret.err = "nil")
        => (cur > 0 /\ <<cur, ret.res>> \in answered)

(***************************************************************************)
(* Claims about the client (SpecClient).                                   *)
(***************************************************************************)

\* the callers whose exchange is open on the transport
Exchanging == {c \in Callers : cpc[c] = "exchange"}

\* C7: concurrent calls on one client never overlap on its transport: at
\* most one exchange is open at any time, its caller holds mc.lock, and a
\* request frame is written only when no other exchange is open.
C7_ExchangesNeverOverlap ==
    /\ [](Cardinality(Exchanging) <= 1)
    /\ [](\A c \in Callers : cpc[c] \in {"locked", "exchange"} => lock = c)
    /\ [][\A c \in Callers :
              (cpc[c] = "locked" /\ cpc'[c] = "exchange") => Exchanging = {}]_vars

C7_Witness ==
    \E c, d \in Callers :
        /\ cpc[c] = "exchange"
        /\ cpc[d] = "wait"
        /\ cmeth[c] = "readBools"
        /\ cmeth[d] = "WriteRegister"

====
